---- MODULE Spec2Model ----
(***************************************************************************)
(* Model of the experiment controller of the North Node Adapter            *)
(* (src/src/experiment.py) as it is driven by the HTTP front end           *)
(* (src/src/nna.py): request threads call start(), stop() and getStatus()  *)
(* concurrently, and start() spawns the background thread that runs        *)
(* init() -> execute() -> cleanup().                                       *)
(*                                                                         *)
(* Python's None is the string "None" for string-valued fields, NoId for   *)
(* the experiment id and NoTime for the two times.                         *)
(***************************************************************************)
EXTENDS Integers, Sequences, FiniteSets, TLC

\* ---------------------------------------------------------------- bounds
\* Wall-clock instants are 0..MaxTime; the clock saturates at MaxTime.
MaxTime == 2

\* ------------------------------------------------------- program constants
NoId == 0
StaticId == 1
NoTime == -1
Malformed == -2
MaxSlices == 2
MaxApps == 2
UpdateInterval == 1
NoBurst == -1

None == "None"
Callers == {"c1", "c2"}
ThreadOrder == <<"t1", "t2">>
Threads == {ThreadOrder[i] : i \in 1..Len(ThreadOrder)}

STATE_READY == "ready"
STATE_INITIALIZE == "initialize"
STATE_EXECUTE == "execute"
STATE_CLEANUP == "cleanup"
STATE_DONE == "done"
STATE_ERROR == "error"
States == {STATE_READY, STATE_INITIALIZE, STATE_EXECUTE, STATE_CLEANUP,
           STATE_DONE, STATE_ERROR}

\* config["defaultSliceId"] and config["slices"]
DefaultSliceId == "default-slice"
ConfigSlices == <<[id |-> "slice-id-1"], [id |-> "slice-id-2"]>>

Range(s) == {s[i] : i \in 1..Len(s)}

\* ------------------------------------------------------ template inputs
\* A JSON value that is not a string is the marker NonString.
NonString == "<int>"
TrialIdInputs == {"int", "bool", "str", "missing"}
TimeInputs == (0..MaxTime) \cup {Malformed}
SliceInputs ==
    { [kind |-> "list", items |-> <<>>],
      [kind |-> "list", items |-> <<"eMBB">>],
      [kind |-> "list", items |-> <<"eMBB", "uRLLC">>],
      [kind |-> "list", items |-> <<"eMBB", "uRLLC", "mMTC">>],
      [kind |-> "list", items |-> <<"eMBB", "">>],
      [kind |-> "list", items |-> <<NonString>>],
      [kind |-> "notlist", items |-> <<>>],
      [kind |-> "missing", items |-> <<>>] }
AppInputs ==
    { [kind |-> "list", items |-> <<>>],
      [kind |-> "list", items |-> <<"app1">>],
      [kind |-> "list", items |-> <<"app1", "app2", "app3">>],
      [kind |-> "list", items |-> <<"app1", NonString>>],
      [kind |-> "notlist", items |-> <<>>],
      [kind |-> "missing", items |-> <<>>] }
\* the templates a request may carry: any two times, and at most one of the
\* trial id, the slice list and the application list is not as it should be
GoodSlices(sl) == sl.kind = "list" /\ Len(sl.items) <= MaxSlices
                    /\ \A i \in 1..Len(sl.items) : sl.items[i] \notin {"", NonString}
GoodApps(ap) == ap.kind = "list" /\ Len(ap.items) <= MaxApps
                  /\ \A i \in 1..Len(ap.items) : ap.items[i] # NonString
Templates ==
    { n \in [trialId : TrialIdInputs, startTime : TimeInputs, stopTime : TimeInputs,
              slices : SliceInputs, applications : AppInputs] :
        Cardinality({f \in {"trialId", "slices", "applications"} :
            \/ f = "trialId" /\ n.trialId # "int"
            \/ f = "slices" /\ ~GoodSlices(n.slices)
            \/ f = "applications" /\ ~GoodApps(n.applications)}) <= 1 }

\* isinstance(x, int): true of a Python int and of a Python bool (JSON true/false)
IsInstanceInt(v) == v \in {"int", "bool"}
IsInstanceStr(v) == v # NonString

\* ------------------------------------------------------ calculateBurst()
\* Python's round() of the quotient n / d, d even: the nearest integer, and of
\* the two nearest the even one. (rate / 8) * 1.5 is computed without rounding
\* error for the rates of the model, so its value is the quotient 3 * rate / 16.
RoundHalfEven(n, d) ==
    LET q == n \div d
        r == n % d
    IN  IF 2 * r < d THEN q
        ELSE IF 2 * r > d THEN q + 1
        ELSE IF q % 2 = 0 THEN q ELSE q + 1

\* calculateBurst() that truncates
calculateBurst_Truncate(rate) == (3 * rate) \div 16

\* return round((rate / 8) * 1.5)
calculateBurst(rate) == RoundHalfEven(3 * rate, 16)

\* the rates calculateBurst() is evaluated at
MaxRate == 100
Rates == (0..MaxRate) \cup {10000}

\* ------------------------------------------------- adjustSwitchValues()
\* config["maxDownlinkBandwidth"] and config["maxUplinkBandwidth"]
MaxDownlinkBandwidth == 400000
MaxUplinkBandwidth == 60000
\* an allocation fraction is a number of FracDen-ths
FracDen == 10
Fractions == 0..FracDen

\* adjustSwitchValues() that takes both rates from the downlink bandwidth
adjustSwitchValues_OneBandwidth(dlSlice1, dlSlice2, ulSlice1, ulSlice2) ==
    LET dlRateSlice1 == RoundHalfEven(dlSlice1 * MaxDownlinkBandwidth, FracDen)
        dlRateSlice2 == RoundHalfEven(dlSlice2 * MaxDownlinkBandwidth, FracDen)
        ulRateSlice1 == RoundHalfEven(ulSlice1 * MaxDownlinkBandwidth, FracDen)
        ulRateSlice2 == RoundHalfEven(ulSlice2 * MaxDownlinkBandwidth, FracDen)
    IN  << [dl |-> [rate |-> dlRateSlice1, burst |-> calculateBurst(dlRateSlice1)],
            ul |-> [rate |-> ulRateSlice1, burst |-> calculateBurst(ulRateSlice1)]],
           [dl |-> [rate |-> dlRateSlice2, burst |-> calculateBurst(dlRateSlice2)],
            ul |-> [rate |-> ulRateSlice2, burst |-> calculateBurst(ulRateSlice2)]] >>

\* ovsValues of adjustSwitchValues(): round(fraction * bandwidth) is Python's
\* round() of the quotient numerator * bandwidth / FracDen
adjustSwitchValues(dlSlice1, dlSlice2, ulSlice1, ulSlice2) ==
    LET dlRateSlice1 == RoundHalfEven(dlSlice1 * MaxDownlinkBandwidth, FracDen)
        dlRateSlice2 == RoundHalfEven(dlSlice2 * MaxDownlinkBandwidth, FracDen)
        ulRateSlice1 == RoundHalfEven(ulSlice1 * MaxUplinkBandwidth, FracDen)
        ulRateSlice2 == RoundHalfEven(ulSlice2 * MaxUplinkBandwidth, FracDen)
    IN  << [dl |-> [rate |-> dlRateSlice1, burst |-> calculateBurst(dlRateSlice1)],
            ul |-> [rate |-> ulRateSlice1, burst |-> calculateBurst(ulRateSlice1)]],
           [dl |-> [rate |-> dlRateSlice2, burst |-> calculateBurst(dlRateSlice2)],
            ul |-> [rate |-> ulRateSlice2, burst |-> calculateBurst(ulRateSlice2)]] >>

VARIABLES
    runningLock,   \* holder of self.runningLock: a caller or None
    statusLock,    \* holder of self.statusLock: a caller, a thread or None
    thread,        \* self._thread: a thread or None
    stopEvent,     \* self._stop_event
    id, state, message, log, nst, startTime, stopTime, slices, apps,
    msgOf,         \* history: the state written by the update that wrote message
    now,           \* wall clock
    pc,            \* position of each request thread
    ret,           \* value a request thread holds: captured log or return value
    nstOk,         \* history: class of the template the load in progress was given
    lastStart,     \* history: the value the last successful start() returned
    bgpc,          \* position of each background thread
    exc,           \* exception caught by run(), as its message
    wake,          \* instant at which the thread's time.sleep() may end
    ovs,           \* traffic shaper: the last batch sent to it
    early,         \* history: the stop event was set before the start time
    joins,         \* how often join() has returned for the thread object in self._thread
    late,          \* EXECUTE was entered with the stop time already reached
    iter,          \* what the running control-loop iteration has done so far
    calc,          \* an evaluation of calculateBurst(): its argument and its value
    sw             \* an evaluation of adjustSwitchValues(): its arguments and the batches sent

expVars == <<id, state, message, log, nst, startTime, stopTime, slices, apps, msgOf>>
lockVars == <<runningLock, statusLock>>
bgVars == <<bgpc, exc, wake>>
extVars == <<ovs>>
histVars == <<early, iter, late, joins>>
pureVars == <<calc, sw>>
vars == <<runningLock, statusLock, thread, stopEvent, id, state, message, log,
          nst, startTime, stopTime, slices, apps, msgOf, now, pc, ret, nstOk,
          lastStart, bgpc, exc, wake, ovs, early, iter, late, joins, calc, sw>>

NoRet == [kind |-> "none"]
\* no evaluation of calculateBurst() is under way
NoCalc == [rate |-> 0, burst |-> NoBurst]
\* no evaluation of adjustSwitchValues() is under way
NoSw == [alloc |-> <<0, 0, 0, 0>>, sent |-> <<>>]
\* self.nst = None; a loaded template is kept as its two lists
NoNst == [slices |-> <<>>, applications |-> <<>>, none |-> TRUE]

\* A request thread that holds the value start() or getStatus() returned hands
\* it over before anything else happens: Return(c) reads and writes only pc[c]
\* and ret[c], so it commutes with every step of the other threads. Every
\* other step waits for it (Quiet).
Quiet == \A c \in Callers : pc[c] \notin {"start_done", "status_done"}

\* Experiment.__init__
Init ==
    /\ runningLock = None
    /\ statusLock = None
    /\ thread = None
    /\ stopEvent = FALSE
    /\ id = NoId
    /\ state = STATE_READY
    /\ message = None
    /\ msgOf = STATE_READY
    /\ log = <<>>
    /\ nst = NoNst
    /\ startTime = NoTime
    /\ stopTime = NoTime
    /\ slices = <<>>
    /\ apps = <<>>
    /\ now = 0
    /\ pc = [c \in Callers |-> "idle"]
    /\ ret = [c \in Callers |-> NoRet]
    /\ nstOk = "na"
    /\ lastStart = NoRet
    /\ bgpc = [t \in Threads |-> "unborn"]
    /\ exc = [t \in Threads |-> None]
    /\ wake = [t \in Threads |-> 0]
    /\ ovs = "none"
    /\ early = FALSE
    /\ joins = 0
    /\ late = FALSE
    /\ iter = <<>>
    /\ calc = NoCalc
    /\ sw = NoSw

\* datetime.now(timezone.utc) advances
Tick ==
    /\ Quiet
    /\ now < MaxTime
    /\ now' = now + 1
    /\ UNCHANGED <<runningLock, statusLock, thread, stopEvent, id, state, message,
                   log, nst, startTime, stopTime, slices, apps, msgOf, pc, ret,
                   nstOk, lastStart, bgpc, exc, wake, ovs>>
    /\ UNCHANGED <<pureVars, histVars>>

\* -------------------------------------------------------------- load()
\* The checks and assignments of load() after its reset, in source order, on
\* template n at instant timeNow; st0 and sp0 are the times held before.
\* err is "none" when load() returns normally.
LoadNst(n, timeNow, st0, sp0) ==
    LET r0 == [err |-> "none", id |-> NoId, startTime |-> st0, stopTime |-> sp0,
               slices |-> <<>>, apps |-> <<>>, nst |-> NoNst]
        r1 == [r0 EXCEPT !.startTime = n.startTime]
        r2 == [r1 EXCEPT !.stopTime = n.stopTime]
        r3 == [r2 EXCEPT !.slices =
                  [i \in 1..Len(n.slices.items) |->
                      [type |-> n.slices.items[i], id |-> ConfigSlices[i].id]]]
    IN  IF n.trialId = "missing" \/ ~IsInstanceInt(n.trialId)
          THEN [r0 EXCEPT !.err = "Invalid or no trial ID in NST"]
        ELSE IF n.startTime = Malformed
          THEN [r0 EXCEPT !.err = "ValueError"]
        ELSE IF n.stopTime = Malformed
          THEN [r1 EXCEPT !.err = "ValueError"]
        ELSE IF timeNow > r2.startTime \/ timeNow > r2.stopTime
          THEN [r2 EXCEPT !.err = "Invalid execution time in NST"]
        ELSE IF r2.startTime > r2.stopTime
          THEN [r2 EXCEPT !.err = "Invalid execution time in NST"]
        ELSE IF n.slices.kind # "list" \/ "" \in Range(n.slices.items)
          THEN [r2 EXCEPT !.err = "Invalid or no slice information in NST"]
        ELSE IF ~(\A i \in 1..Len(n.slices.items) : IsInstanceStr(n.slices.items[i]))
          THEN [r2 EXCEPT !.err = "Slice information in NST should contain only strings"]
        ELSE IF Len(n.slices.items) > MaxSlices
          THEN [r2 EXCEPT !.err = "Only up to 2 slices supported"]
        ELSE IF n.applications.kind # "list"
          THEN [r3 EXCEPT !.err = "Invalid or no application information in NST"]
        ELSE IF ~(\A i \in 1..Len(n.applications.items) :
                      IsInstanceStr(n.applications.items[i]))
          THEN [r3 EXCEPT !.err = "Application information in NST should contain only strings"]
        ELSE IF Len(n.applications.items) > MaxApps
          THEN [r3 EXCEPT !.err = "Only up to 2 applications supported"]
        ELSE [r3 EXCEPT !.apps = n.applications.items, !.id = StaticId,
                         !.nst = [slices |-> n.slices.items,
                                  applications |-> n.applications.items,
                                  none |-> FALSE]]

\* The template rules of the data model: an integer trial id, two well-formed
\* times with start <= stop and neither in the past, at most two slice types
\* and at most two applications, all strings.
ValidTemplate(n, timeNow) ==
    /\ n.trialId = "int"
    /\ n.startTime # Malformed /\ n.stopTime # Malformed
    /\ n.startTime <= n.stopTime
    /\ timeNow <= n.startTime /\ timeNow <= n.stopTime
    /\ n.slices.kind = "list" /\ Len(n.slices.items) <= MaxSlices
    /\ \A i \in 1..Len(n.slices.items) : n.slices.items[i] # NonString
    /\ n.applications.kind = "list" /\ Len(n.applications.items) <= MaxApps
    /\ \A i \in 1..Len(n.applications.items) : n.applications.items[i] # NonString

\* "valid", "valid-empty-type" (valid, but a slice type is the empty string)
\* or "invalid"
NstClass(n, timeNow) ==
    IF ~ValidTemplate(n, timeNow) THEN "invalid"
    ELSE IF "" \in Range(n.slices.items) THEN "valid-empty-type"
    ELSE "valid"

\* ------------------------------------------------------------- start()
\* with self.runningLock:
StartEnter(c) ==
    /\ Quiet
    /\ pc[c] = "idle"
    /\ runningLock = None
    /\ runningLock' = c
    /\ pc' = [pc EXCEPT ![c] = "start_check"]
    /\ UNCHANGED <<statusLock, thread, stopEvent, expVars, now, ret, nstOk, lastStart,
                   bgVars, extVars>>
    /\ UNCHANGED <<pureVars, histVars>>

\* start() without its check of self._thread
StartCheck_NoCheck(c) ==
    /\ Quiet
    /\ pc[c] = "start_check"
    /\ pc' = [pc EXCEPT ![c] = "load_enter"]
    /\ UNCHANGED <<lockVars, thread, stopEvent, expVars, now, ret, nstOk, lastStart,
                   bgVars, extVars>>
    /\ UNCHANGED <<pureVars, histVars>>

\* start() that refuses only while the thread is alive
StartCheck_AliveOnly(c) ==
    /\ Quiet
    /\ pc[c] = "start_check"
    /\ pc' = [pc EXCEPT ![c] = IF thread # None /\ bgpc[thread] # "exited"
                                THEN "start_raise_running"
                                ELSE "load_enter"]
    /\ UNCHANGED <<lockVars, thread, stopEvent, expVars, now, ret, nstOk, lastStart,
                   bgVars, extVars>>
    /\ UNCHANGED <<pureVars, histVars>>

\* if self._thread != None: raise Exception("Can run only one experiment at a time!")
StartCheck(c) ==
    /\ Quiet
    /\ pc[c] = "start_check"
    /\ pc' = [pc EXCEPT ![c] = IF thread # None THEN "start_raise_running"
                                ELSE "load_enter"]
    /\ UNCHANGED <<lockVars, thread, stopEvent, expVars, now, ret, nstOk, lastStart,
                   bgVars, extVars>>
    /\ UNCHANGED <<pureVars, histVars>>

\* load(): with self.statusLock, the reset of the experiment fields
LoadReset(c) ==
    /\ Quiet
    /\ pc[c] = "load_enter"
    /\ statusLock = None
    /\ statusLock' = c
    /\ id' = NoId
    /\ log' = <<>>
    /\ state' = STATE_READY
    /\ message' = None
    /\ msgOf' = STATE_READY
    /\ nst' = NoNst
    /\ slices' = <<>>
    /\ apps' = <<>>
    /\ pc' = [pc EXCEPT ![c] = "load_validate"]
    /\ UNCHANGED <<runningLock, thread, stopEvent, startTime, stopTime, now, ret,
                   nstOk, lastStart, bgVars, extVars>>
    /\ UNCHANGED <<pureVars, histVars>>

\* load() that ends without assigning the static id
LoadValidate_KeepId(c) ==
    /\ Quiet
    /\ pc[c] = "load_validate"
    /\ statusLock = c
    /\ \E n \in Templates :
         LET r == LoadNst(n, now, startTime, stopTime) IN
           /\ UNCHANGED id
           /\ startTime' = r.startTime
           /\ stopTime' = r.stopTime
           /\ slices' = r.slices
           /\ apps' = r.apps
           /\ nst' = r.nst
           /\ nstOk' = NstClass(n, now)
           /\ UNCHANGED lastStart
           /\ pc' = [pc EXCEPT ![c] = IF r.err = "none" THEN "start_thread"
                                       ELSE "start_raise_invalid"]
    /\ statusLock' = None
    /\ UNCHANGED <<runningLock, thread, stopEvent, state, message, msgOf, log,
                   now, ret, bgVars, extVars>>
    /\ UNCHANGED <<pureVars, histVars>>

\* load(): the checks of the template and the assignments between them; the
\* statusLock is released at the end of the with block or by the exception.
LoadValidate(c) ==
    /\ Quiet
    /\ pc[c] = "load_validate"
    /\ statusLock = c
    /\ \E n \in Templates :
         LET r == LoadNst(n, now, startTime, stopTime) IN
           /\ id' = r.id
           /\ startTime' = r.startTime
           /\ stopTime' = r.stopTime
           /\ slices' = r.slices
           /\ apps' = r.apps
           /\ nst' = r.nst
           /\ nstOk' = NstClass(n, now)
           /\ UNCHANGED lastStart
           /\ pc' = [pc EXCEPT ![c] = IF r.err = "none" THEN "start_thread"
                                       ELSE "start_raise_invalid"]
    /\ statusLock' = None
    /\ UNCHANGED <<runningLock, thread, stopEvent, state, message, msgOf, log,
                   now, ret, bgVars, extVars>>
    /\ UNCHANGED <<pureVars, histVars>>

\* the exception leaves start(): the runningLock is released
StartRaise(c) ==
    /\ Quiet
    /\ pc[c] \in {"start_raise_running", "start_raise_invalid", "start_raise_thread"}
    /\ runningLock' = None
    /\ nstOk' = IF pc[c] = "start_raise_running" THEN nstOk ELSE "na"
    /\ UNCHANGED lastStart
    /\ pc' = [pc EXCEPT ![c] = "idle"]
    /\ UNCHANGED <<statusLock, thread, stopEvent, expVars, now, ret, bgVars, extVars>>
    /\ UNCHANGED <<pureVars, histVars>>

\* startThread() that leaves the stop event as it finds it
StartClearEvent_NoClear(c) ==
    /\ Quiet
    /\ pc[c] = "start_thread"
    /\ pc' = [pc EXCEPT ![c] = IF thread # None THEN "start_raise_thread"
                                ELSE "start_spawn"]
    /\ nstOk' = "na"
    /\ UNCHANGED <<lastStart, lockVars, thread, stopEvent, expVars, now, ret, bgVars,
                   extVars>>
    /\ UNCHANGED <<pureVars, histVars>>

\* startThread(): the check and self._stop_event.clear()
StartClearEvent(c) ==
    /\ Quiet
    /\ pc[c] = "start_thread"
    /\ IF thread # None
         THEN /\ pc' = [pc EXCEPT ![c] = "start_raise_thread"]
              /\ UNCHANGED stopEvent
         ELSE /\ pc' = [pc EXCEPT ![c] = "start_spawn"]
              /\ stopEvent' = FALSE
    /\ nstOk' = "na"
    /\ UNCHANGED <<lastStart, lockVars, thread, expVars, now, ret, bgVars, extVars>>
    /\ early' = IF thread # None THEN early ELSE FALSE
    /\ UNCHANGED <<iter, late, joins>>
    /\ UNCHANGED pureVars

\* the first thread object, in ThreadOrder, that is not in use
FreeThread ==
    LET free == {i \in 1..Len(ThreadOrder) : bgpc[ThreadOrder[i]] = "unborn"}
    IN  ThreadOrder[CHOOSE i \in free : \A j \in free : i <= j]

\* startThread(): self._thread = threading.Thread(...); self._thread.start()
StartSpawn(c) ==
    /\ Quiet
    /\ pc[c] = "start_spawn"
    /\ \E i \in 1..Len(ThreadOrder) : bgpc[ThreadOrder[i]] = "unborn"
    /\ thread' = FreeThread
    /\ bgpc' = [bgpc EXCEPT ![FreeThread] = "init_status"]
    /\ exc' = [exc EXCEPT ![FreeThread] = None]
    /\ wake' = [wake EXCEPT ![FreeThread] = 0]
    /\ pc' = [pc EXCEPT ![c] = "start_return"]
    /\ UNCHANGED <<lockVars, stopEvent, expVars, now, ret, nstOk, lastStart, extVars>>
    /\ joins' = 0
    /\ UNCHANGED <<pureVars, early, iter, late>>

\* start() that returns every slice with the id of the first configured slice
StartReturn_FirstSliceId(c) ==
    /\ Quiet
    /\ pc[c] = "start_return"
    /\ statusLock = None
    /\ ret' = [ret EXCEPT ![c] =
                  [kind |-> "start", id |-> id, defaultSliceId |-> DefaultSliceId,
                   slices |-> [i \in 1..Len(slices) |->
                                  [type |-> slices[i].type, id |-> ConfigSlices[1].id]]]]
    /\ lastStart' = ret'[c]
    /\ runningLock' = None
    /\ pc' = [pc EXCEPT ![c] = "start_done"]
    /\ UNCHANGED <<statusLock, thread, stopEvent, expVars, now, nstOk, bgVars, extVars>>
    /\ UNCHANGED <<pureVars, histVars>>

\* with self.statusLock: return {"id", "defaultSliceId", "slices": deepcopy}
StartReturn(c) ==
    /\ Quiet
    /\ pc[c] = "start_return"
    /\ statusLock = None
    /\ ret' = [ret EXCEPT ![c] = [kind |-> "start", id |-> id,
                                  defaultSliceId |-> DefaultSliceId,
                                  slices |-> slices]]
    /\ lastStart' = ret'[c]
    /\ runningLock' = None
    /\ pc' = [pc EXCEPT ![c] = "start_done"]
    /\ UNCHANGED <<statusLock, thread, stopEvent, expVars, now, nstOk, bgVars, extVars>>
    /\ UNCHANGED <<pureVars, histVars>>

\* the request thread is done with the value it got and serves the next request
Return(c) ==
    /\ pc[c] \in {"start_done", "status_done"}
    /\ ret' = [ret EXCEPT ![c] = NoRet]
    /\ pc' = [pc EXCEPT ![c] = "idle"]
    /\ UNCHANGED <<lockVars, thread, stopEvent, expVars, now, nstOk, lastStart, bgVars, extVars>>
    /\ UNCHANGED <<pureVars, histVars>>

\* -------------------------------------------------------------- stop()
\* the ids a request can name: the static id and others
MaxStopId == 2
StopIds == 1..MaxStopId

\* stop(id) that does not take the runningLock
StopEnter_NoLock(c) ==
    /\ Quiet
    /\ pc[c] = "idle"
    /\ \E i \in StopIds : ret' = [ret EXCEPT ![c] = [kind |-> "stop", id |-> i]]
    /\ pc' = [pc EXCEPT ![c] = "stop_check"]
    /\ UNCHANGED <<lockVars, thread, stopEvent, expVars, now, nstOk, lastStart,
                   bgVars, extVars>>
    /\ UNCHANGED <<pureVars, histVars>>

\* stop(id) is called with one of the ids; with self.runningLock:
StopEnter(c) ==
    /\ Quiet
    /\ pc[c] = "idle"
    /\ runningLock = None
    /\ runningLock' = c
    /\ \E i \in StopIds : ret' = [ret EXCEPT ![c] = [kind |-> "stop", id |-> i]]
    /\ pc' = [pc EXCEPT ![c] = "stop_check"]
    /\ UNCHANGED <<statusLock, thread, stopEvent, expVars, now, nstOk, lastStart,
                   bgVars, extVars>>
    /\ UNCHANGED <<pureVars, histVars>>

\* stop() that does not compare the id
StopCheck_IgnoreId(c) ==
    /\ Quiet
    /\ pc[c] = "stop_check"
    /\ pc' = [pc EXCEPT ![c] = IF thread = None THEN "stop_raise" ELSE "stop_signal"]
    /\ UNCHANGED <<lockVars, thread, stopEvent, expVars, now, ret, nstOk, lastStart,
                   bgVars, extVars>>
    /\ UNCHANGED <<pureVars, histVars>>

\* if self.id != id or self._thread is None: raise Exception("Experiment not found!")
StopCheck(c) ==
    /\ Quiet
    /\ pc[c] = "stop_check"
    /\ pc' = [pc EXCEPT ![c] = IF id # ret[c].id \/ thread = None THEN "stop_raise"
                                ELSE "stop_signal"]
    /\ UNCHANGED <<lockVars, thread, stopEvent, expVars, now, ret, nstOk, lastStart,
                   bgVars, extVars>>
    /\ UNCHANGED <<pureVars, histVars>>

\* the exception leaves stop(): the runningLock is released
StopRaise(c) ==
    /\ Quiet
    /\ pc[c] = "stop_raise"
    /\ runningLock' = None
    /\ ret' = [ret EXCEPT ![c] = NoRet]
    /\ pc' = [pc EXCEPT ![c] = "idle"]
    /\ UNCHANGED <<statusLock, thread, stopEvent, expVars, now, nstOk, lastStart,
                   bgVars, extVars>>
    /\ UNCHANGED <<pureVars, histVars>>

\* stop() that takes the statusLock before it signals and joins
StopSignal_TakeStatusLock(c) ==
    /\ Quiet
    /\ pc[c] = "stop_signal"
    /\ statusLock = None
    /\ statusLock' = c
    /\ stopEvent' = TRUE
    /\ pc' = [pc EXCEPT ![c] = "stop_join"]
    /\ UNCHANGED <<runningLock, thread, expVars, now, ret, nstOk, lastStart, bgVars, extVars>>
    /\ early' = (now < startTime)
    /\ UNCHANGED <<iter, late, joins>>
    /\ UNCHANGED pureVars

\* self._stop_event.set()
StopSignal(c) ==
    /\ Quiet
    /\ pc[c] = "stop_signal"
    /\ stopEvent' = TRUE
    /\ pc' = [pc EXCEPT ![c] = "stop_join"]
    /\ UNCHANGED <<lockVars, thread, expVars, now, ret, nstOk, lastStart, bgVars, extVars>>
    /\ early' = (now < startTime)
    /\ UNCHANGED <<iter, late, joins>>
    /\ UNCHANGED pureVars

\* join() that does not wait for the thread
StopJoin_NoWait(c) ==
    /\ Quiet
    /\ pc[c] = "stop_join"
    /\ pc' = [pc EXCEPT ![c] = IF thread = None THEN "stop_raise" ELSE "stop_getlog"]
    /\ UNCHANGED <<lockVars, thread, stopEvent, expVars, now, ret, nstOk, lastStart,
                   bgVars, extVars>>
    /\ joins' = IF thread = None THEN joins ELSE joins + 1
    /\ UNCHANGED <<pureVars, early, iter, late>>

\* join(): self._thread.join() returns once the thread has exited
StopJoin(c) ==
    /\ Quiet
    /\ pc[c] = "stop_join"
    /\ IF thread = None
         THEN pc' = [pc EXCEPT ![c] = "stop_raise"]
         ELSE /\ bgpc[thread] = "exited"
              /\ pc' = [pc EXCEPT ![c] = "stop_getlog"]
    /\ UNCHANGED <<lockVars, thread, stopEvent, expVars, now, ret, nstOk, lastStart,
                   bgVars, extVars>>
    /\ joins' = IF thread = None THEN joins ELSE joins + 1
    /\ UNCHANGED <<pureVars, early, iter, late>>

\* log = self.getLog(): with self.statusLock: return self.log
StopGetLog(c) ==
    /\ Quiet
    /\ pc[c] = "stop_getlog"
    /\ statusLock = None
    /\ ret' = [ret EXCEPT ![c] = [kind |-> "log", log |-> log]]
    /\ pc' = [pc EXCEPT ![c] = "stop_reset"]
    /\ UNCHANGED <<lockVars, thread, stopEvent, expVars, now, nstOk, lastStart, bgVars, extVars>>
    /\ UNCHANGED <<pureVars, histVars>>

\* stop() whose reset leaves self.id as it is
StopResetState_KeepId(c) ==
    /\ Quiet
    /\ pc[c] = "stop_reset"
    /\ statusLock = None
    /\ statusLock' = c
    /\ log' = <<>>
    /\ state' = STATE_READY
    /\ pc' = [pc EXCEPT ![c] = "stop_reset_message"]
    /\ UNCHANGED <<runningLock, thread, stopEvent, id, message, msgOf, nst, startTime,
                   stopTime, slices, apps, now, ret, nstOk, lastStart, bgVars, extVars>>
    /\ UNCHANGED <<pureVars, histVars>>

\* with self.statusLock: self.id = None; self.log = ""; self.state = READY
StopResetState(c) ==
    /\ Quiet
    /\ pc[c] = "stop_reset"
    /\ statusLock = None
    /\ statusLock' = c
    /\ id' = NoId
    /\ log' = <<>>
    /\ state' = STATE_READY
    /\ pc' = [pc EXCEPT ![c] = "stop_reset_message"]
    /\ UNCHANGED <<runningLock, thread, stopEvent, message, msgOf, nst, startTime,
                   stopTime, slices, apps, now, ret, nstOk, lastStart, bgVars, extVars>>
    /\ UNCHANGED <<pureVars, histVars>>

\* self.message = None; self.nst = None; self.slices = []; self.apps = []
\* and the end of the with block
StopResetMessage(c) ==
    /\ Quiet
    /\ pc[c] = "stop_reset_message"
    /\ statusLock = c
    /\ message' = None
    /\ msgOf' = STATE_READY
    /\ nst' = NoNst
    /\ slices' = <<>>
    /\ apps' = <<>>
    /\ statusLock' = None
    /\ pc' = [pc EXCEPT ![c] = "stop_clear"]
    /\ UNCHANGED <<runningLock, thread, stopEvent, id, state, log, startTime,
                   stopTime, now, ret, nstOk, lastStart, bgVars, extVars>>
    /\ UNCHANGED <<pureVars, histVars>>

\* stop() that keeps self._thread
StopClearThread_Forget(c) ==
    /\ Quiet
    /\ pc[c] = "stop_clear"
    /\ pc' = [pc EXCEPT ![c] = "stop_return"]
    /\ UNCHANGED <<lockVars, thread, stopEvent, expVars, now, ret, nstOk, lastStart,
                   bgVars, extVars>>
    /\ UNCHANGED <<pureVars, histVars>>

\* self._thread = None: the object of the thread, which has exited, is dropped
StopClearThread(c) ==
    /\ Quiet
    /\ pc[c] = "stop_clear"
    /\ thread' = None
    /\ bgpc' = [t \in Threads |-> IF t = thread /\ bgpc[t] = "exited" THEN "unborn"
                                  ELSE bgpc[t]]
    /\ exc' = [t \in Threads |-> IF t = thread /\ bgpc[t] = "exited" THEN None
                                 ELSE exc[t]]
    /\ UNCHANGED wake
    /\ pc' = [pc EXCEPT ![c] = "stop_return"]
    /\ UNCHANGED <<lockVars, stopEvent, expVars, now, ret, nstOk, lastStart, extVars>>
    /\ early' = FALSE
    /\ UNCHANGED <<iter, late, joins>>
    /\ UNCHANGED pureVars

\* return log: the runningLock is released and the request is served
StopReturn(c) ==
    /\ Quiet
    /\ pc[c] = "stop_return"
    /\ runningLock' = None
    /\ ret' = [ret EXCEPT ![c] = NoRet]
    /\ pc' = [pc EXCEPT ![c] = "idle"]
    /\ UNCHANGED <<statusLock, thread, stopEvent, expVars, now, nstOk, lastStart,
                   bgVars, extVars>>
    /\ UNCHANGED <<pureVars, histVars>>

\* --------------------------------------------------------- getStatus()
\* getStatus() that reads the fields without the statusLock
GetStatus_NoLock(c) ==
    /\ Quiet
    /\ pc[c] = "idle"
    /\ ret' = [ret EXCEPT ![c] = [kind |-> "status", id |-> id, state |-> state,
                                  message |-> message, msgOf |-> msgOf]]
    /\ pc' = [pc EXCEPT ![c] = "status_done"]
    /\ UNCHANGED <<lockVars, thread, stopEvent, expVars, now, nstOk, lastStart, bgVars, extVars>>
    /\ UNCHANGED <<pureVars, histVars>>

\* with self.statusLock: return {"id", "state", "message"}
GetStatus(c) ==
    /\ Quiet
    /\ pc[c] = "idle"
    /\ statusLock = None
    /\ ret' = [ret EXCEPT ![c] = [kind |-> "status", id |-> id, state |-> state,
                                  message |-> message, msgOf |-> msgOf]]
    /\ pc' = [pc EXCEPT ![c] = "status_done"]
    /\ UNCHANGED <<lockVars, thread, stopEvent, expVars, now, nstOk, lastStart, bgVars, extVars>>
    /\ UNCHANGED <<pureVars, histVars>>

\* ------------------------------------------------- the background thread
\* The calls of setStatus() in run(), init(), execute() and cleanup(): where the
\* thread is, the state the call sets, and where the thread goes on.
\* the calls of setStatus() with execute() entered again after cleanup() began
StatusCalls_ExecuteAfterCleanup ==
    { [at |-> "init_status",    st |-> STATE_INITIALIZE, next |-> "init_qosium"],
      [at |-> "exec_status",    st |-> STATE_EXECUTE,    next |-> "loop_clock"],
      [at |-> "cleanup_status", st |-> STATE_CLEANUP,    next |-> "exec_clock"],
      [at |-> "done_status",    st |-> STATE_DONE,       next |-> "final_qosium"],
      [at |-> "error_status",   st |-> STATE_ERROR,      next |-> "final_qosium"] }

\* the calls of setStatus() with the handler of run() entered after DONE was set
StatusCalls_ErrorAfterDone ==
    { [at |-> "init_status",    st |-> STATE_INITIALIZE, next |-> "init_qosium"],
      [at |-> "exec_status",    st |-> STATE_EXECUTE,    next |-> "loop_clock"],
      [at |-> "cleanup_status", st |-> STATE_CLEANUP,    next |-> "cleanup_qosium"],
      [at |-> "done_status",    st |-> STATE_DONE,       next |-> "error_status"],
      [at |-> "error_status",   st |-> STATE_ERROR,      next |-> "final_qosium"] }

StatusCalls ==
    { [at |-> "init_status",    st |-> STATE_INITIALIZE, next |-> "init_qosium"],
      [at |-> "exec_status",    st |-> STATE_EXECUTE,    next |-> "loop_clock"],
      [at |-> "cleanup_status", st |-> STATE_CLEANUP,    next |-> "cleanup_qosium"],
      [at |-> "done_status",    st |-> STATE_DONE,       next |-> "final_qosium"],
      [at |-> "error_status",   st |-> STATE_ERROR,      next |-> "final_qosium"] }
StatusCall(t) == CHOOSE k \in StatusCalls : k.at = bgpc[t]

\* setStatus(): with self.statusLock: self.state = state
SetStatusState(t) ==
    /\ Quiet
    /\ \E k \in StatusCalls : k.at = bgpc[t]
    /\ statusLock = None
    /\ statusLock' = t
    /\ state' = StatusCall(t).st
    /\ UNCHANGED <<runningLock, thread, stopEvent, id, message, msgOf, log, nst,
                   startTime, stopTime, slices, apps, now, pc, ret, nstOk, lastStart,
                   bgVars, extVars>>
    /\ late' = IF StatusCall(t).st = STATE_EXECUTE THEN now >= stopTime
               ELSE IF StatusCall(t).st = STATE_INITIALIZE THEN FALSE
               ELSE late
    /\ UNCHANGED <<pureVars, early, iter, joins>>

\* setStatus() that never releases the statusLock
SetStatusMessage_KeepLock(t) ==
    /\ Quiet
    /\ \E k \in StatusCalls : k.at = bgpc[t]
    /\ statusLock = t
    /\ message' = IF StatusCall(t).st = STATE_ERROR THEN exc[t] ELSE None
    /\ msgOf' = StatusCall(t).st
    /\ bgpc' = [bgpc EXCEPT ![t] = StatusCall(t).next]
    /\ UNCHANGED <<lockVars, thread, stopEvent, id, state, log, nst, startTime,
                   stopTime, slices, apps, now, pc, ret, nstOk, lastStart, exc, wake, extVars>>
    /\ UNCHANGED <<pureVars, histVars>>

\* setStatus(): self.message = message, and the end of the with block
SetStatusMessage(t) ==
    /\ Quiet
    /\ \E k \in StatusCalls : k.at = bgpc[t]
    /\ statusLock = t
    /\ message' = IF StatusCall(t).st = STATE_ERROR THEN exc[t] ELSE None
    /\ msgOf' = StatusCall(t).st
    /\ statusLock' = None
    /\ bgpc' = [bgpc EXCEPT ![t] = StatusCall(t).next]
    /\ UNCHANGED <<runningLock, thread, stopEvent, id, state, log, nst, startTime,
                   stopTime, slices, apps, now, pc, ret, nstOk, lastStart, exc, wake, extVars>>
    /\ UNCHANGED <<pureVars, histVars>>

\* setLog() that assigns the line instead of appending it
SetLog_Overwrite(t, at, line, next) ==
    /\ Quiet
    /\ bgpc[t] = at
    /\ statusLock = None
    /\ log' = <<line>>
    /\ iter' = Append(iter, line)
    /\ bgpc' = [bgpc EXCEPT ![t] = next]
    /\ UNCHANGED <<lockVars, thread, stopEvent, id, state, message, msgOf, nst,
                   startTime, stopTime, slices, apps, now, pc, ret, nstOk, lastStart, exc,
                   wake, extVars>>
    /\ UNCHANGED <<pureVars, early, late, joins>>

\* setLog(): with self.statusLock: self.log += line
SetLog(t, at, line, next) ==
    /\ Quiet
    /\ bgpc[t] = at
    /\ statusLock = None
    /\ log' = Append(log, line)
    /\ iter' = Append(iter, line)
    /\ bgpc' = [bgpc EXCEPT ![t] = next]
    /\ UNCHANGED <<lockVars, thread, stopEvent, id, state, message, msgOf, nst,
                   startTime, stopTime, slices, apps, now, pc, ret, nstOk, lastStart, exc,
                   wake, extVars>>
    /\ UNCHANGED <<pureVars, early, late, joins>>

\* a remote call made at `at` raises and execute() is entered all the same
Raise_Continue(t, at, msg) ==
    /\ bgpc[t] = at
    /\ exc' = [exc EXCEPT ![t] = msg]
    /\ bgpc' = [bgpc EXCEPT ![t] = "exec_event"]

\* a remote call made at `at` raises: the handler of run() catches e
Raise(t, at, msg) ==
    /\ bgpc[t] = at
    /\ exc' = [exc EXCEPT ![t] = msg]
    /\ bgpc' = [bgpc EXCEPT ![t] = "error_status"]

\* init(): self.qosium.initialize(self.slices)
InitQosium(t) ==
    /\ Quiet
    /\ bgpc[t] = "init_qosium"
    /\ \/ /\ bgpc' = [bgpc EXCEPT ![t] = "init_ovs"]
          /\ UNCHANGED exc
       \/ Raise(t, "init_qosium", "qosium initialize failed")
    /\ UNCHANGED <<lockVars, thread, stopEvent, expVars, now, pc, ret, nstOk, lastStart,
                   wake, ovs>>
    /\ UNCHANGED <<pureVars, histVars>>

\* init(): self.ovs.setDownlinkUplinkValues(zero batch)
InitOvs(t) ==
    /\ Quiet
    /\ bgpc[t] = "init_ovs"
    /\ ovs' = "zero"
    /\ \/ /\ bgpc' = [bgpc EXCEPT ![t] = "exec_event"]
          /\ UNCHANGED exc
       \/ Raise(t, "init_ovs", "ovs failed")
    /\ UNCHANGED <<lockVars, thread, stopEvent, expVars, now, pc, ret, nstOk, lastStart,
                   wake>>
    /\ UNCHANGED <<pureVars, histVars>>

\* execute(): while not self._stop_event.is_set()
ExecCheckEvent(t) ==
    /\ Quiet
    /\ bgpc[t] = "exec_event"
    /\ bgpc' = [bgpc EXCEPT ![t] = IF stopEvent THEN "cleanup_status"
                                    ELSE "exec_clock"]
    /\ UNCHANGED <<lockVars, thread, stopEvent, expVars, now, pc, ret, nstOk, lastStart,
                   exc, wake, extVars>>
    /\ UNCHANGED <<pureVars, histVars>>

\* execute(): if datetime.now(timezone.utc) >= self.startTime
ExecCheckClock(t) ==
    /\ Quiet
    /\ bgpc[t] = "exec_clock"
    /\ bgpc' = [bgpc EXCEPT ![t] = IF now >= startTime THEN "exec_status"
                                    ELSE "exec_sleep"]
    /\ UNCHANGED <<lockVars, thread, stopEvent, expVars, now, pc, ret, nstOk, lastStart,
                   exc, wake, extVars>>
    /\ UNCHANGED <<pureVars, histVars>>

\* execute() whose break follows the sleep: the outer loop is left although
\* the start time has not been reached
ExecSleep_Break(t) ==
    /\ Quiet
    /\ bgpc[t] = "exec_sleep"
    /\ bgpc' = [bgpc EXCEPT ![t] = "cleanup_status"]
    /\ UNCHANGED <<lockVars, thread, stopEvent, expVars, now, pc, ret, nstOk, lastStart,
                   exc, wake, extVars>>
    /\ UNCHANGED <<pureVars, histVars>>

\* execute(): time.sleep(0.1)
ExecSleep(t) ==
    /\ Quiet
    /\ bgpc[t] = "exec_sleep"
    /\ bgpc' = [bgpc EXCEPT ![t] = "exec_event"]
    /\ UNCHANGED <<lockVars, thread, stopEvent, expVars, now, pc, ret, nstOk, lastStart,
                   exc, wake, extVars>>
    /\ UNCHANGED <<pureVars, histVars>>

\* the loop that does not compare the clock with the stop time
LoopCheckClock_NoClock(t) ==
    /\ Quiet
    /\ bgpc[t] = "loop_clock"
    /\ bgpc' = [bgpc EXCEPT ![t] = "loop_event"]
    /\ UNCHANGED <<lockVars, thread, stopEvent, expVars, now, pc, ret, nstOk, lastStart,
                   exc, wake, extVars>>
    /\ UNCHANGED <<pureVars, histVars>>

\* execute(): while datetime.now(timezone.utc) < self.stopTime ...; else break
LoopCheckClock(t) ==
    /\ Quiet
    /\ bgpc[t] = "loop_clock"
    /\ bgpc' = [bgpc EXCEPT ![t] = IF now < stopTime THEN "loop_event"
                                    ELSE "cleanup_status"]
    /\ UNCHANGED <<lockVars, thread, stopEvent, expVars, now, pc, ret, nstOk, lastStart,
                   exc, wake, extVars>>
    /\ UNCHANGED <<pureVars, histVars>>

\* the loop that runs an iteration whatever the number of slices
LoopCheckEvent_AnySlices(t) ==
    /\ Quiet
    /\ bgpc[t] = "loop_event"
    /\ bgpc' = [bgpc EXCEPT ![t] = IF stopEvent THEN "cleanup_status" ELSE "iter_kpis"]
    /\ UNCHANGED <<lockVars, thread, stopEvent, expVars, now, pc, ret, nstOk, lastStart,
                   exc, wake, extVars>>
    /\ UNCHANGED <<pureVars, histVars>>

\* execute(): ... and not self._stop_event.is_set(); if len(self.slices) == 2
LoopCheckEvent(t) ==
    /\ Quiet
    /\ bgpc[t] = "loop_event"
    /\ bgpc' = [bgpc EXCEPT ![t] = IF stopEvent THEN "cleanup_status"
                                    ELSE IF Len(slices) = 2 THEN "iter_kpis"
                                    ELSE "loop_sleep"]
    /\ UNCHANGED <<lockVars, thread, stopEvent, expVars, now, pc, ret, nstOk, lastStart,
                   exc, wake, extVars>>
    /\ UNCHANGED <<pureVars, histVars>>

\* a remote call of one iteration whose failure reaches the handler of run()
IterCall_Abort(t, at, call, next) ==
    /\ bgpc[t] = at
    /\ \/ /\ bgpc' = [bgpc EXCEPT ![t] = next]
          /\ iter' = Append(iter, call)
       \/ /\ bgpc' = [bgpc EXCEPT ![t] = "error_status"]
          /\ iter' = iter \o <<call, "failed">>

\* a remote call of one iteration whose failure is ignored
IterCall_Ignore(t, at, call, next) ==
    /\ bgpc[t] = at
    /\ bgpc' = [bgpc EXCEPT ![t] = next]
    /\ \/ iter' = Append(iter, call)
       \/ iter' = iter \o <<call, "failed">>

\* a remote call of one iteration returns, or raises into the except clause of
\* the iteration (logger.warning) and the loop goes on to its sleep
IterCall(t, at, call, next) ==
    /\ bgpc[t] = at
    /\ \/ /\ bgpc' = [bgpc EXCEPT ![t] = next]
          /\ iter' = Append(iter, call)
       \/ /\ bgpc' = [bgpc EXCEPT ![t] = "loop_sleep"]
          /\ iter' = iter \o <<call, "failed">>

\* kpis = self.qosium.getKpisPerSlice()
IterKpis(t) ==
    /\ Quiet
    /\ IterCall(t, "iter_kpis", "getKpisPerSlice", "iter_log_kpis")
    /\ UNCHANGED <<lockVars, thread, stopEvent, expVars, now, pc, ret, nstOk, lastStart,
                   exc, wake, extVars>>
    /\ UNCHANGED <<pureVars, early, late, joins>>

\* self.setLog("Got KPIs from Qosium: ...")
IterLogKpis(t) == SetLog(t, "iter_log_kpis", "Got KPIs from Qosium", "iter_ai")

\* allocation = self.ai.processKpis(kpis)
IterAi(t) ==
    /\ Quiet
    /\ IterCall(t, "iter_ai", "processKpis", "iter_ovs")
    /\ UNCHANGED <<lockVars, thread, stopEvent, expVars, now, pc, ret, nstOk, lastStart,
                   exc, wake, extVars>>
    /\ UNCHANGED <<pureVars, early, late, joins>>

\* self.adjustSwitchValues(dlSlice1, dlSlice2, ulSlice1, ulSlice2)
IterOvs(t) ==
    /\ Quiet
    /\ IterCall(t, "iter_ovs", "adjustSwitchValues", "iter_log_dl")
    /\ ovs' = "allocation"
    /\ UNCHANGED <<lockVars, thread, stopEvent, expVars, now, pc, ret, nstOk, lastStart,
                   exc, wake>>
    /\ UNCHANGED <<pureVars, early, late, joins>>

\* self.setLog("Set DL slice allocation; ...")
IterLogDl(t) == SetLog(t, "iter_log_dl", "Set DL slice allocation", "iter_log_ul")

\* self.setLog("Set UL slice allocation; ...")
IterLogUl(t) == SetLog(t, "iter_log_ul", "Set UL slice allocation", "loop_sleep")

Min(a, b) == IF a <= b THEN a ELSE b

\* time.sleep(self.config["updateIntervalSeconds"]) begins
LoopSleep(t) ==
    /\ Quiet
    /\ bgpc[t] = "loop_sleep"
    /\ wake' = [wake EXCEPT ![t] = Min(now + UpdateInterval, MaxTime)]
    /\ iter' = <<>>
    /\ bgpc' = [bgpc EXCEPT ![t] = "loop_sleeping"]
    /\ UNCHANGED <<lockVars, thread, stopEvent, expVars, now, pc, ret, nstOk, lastStart,
                   exc, extVars>>
    /\ UNCHANGED <<pureVars, early, late, joins>>

\* ... and ends, not before the interval has passed
LoopWake(t) ==
    /\ Quiet
    /\ bgpc[t] = "loop_sleeping"
    /\ now >= wake[t]
    /\ wake' = [wake EXCEPT ![t] = 0]
    /\ bgpc' = [bgpc EXCEPT ![t] = "loop_clock"]
    /\ UNCHANGED <<lockVars, thread, stopEvent, expVars, now, pc, ret, nstOk, lastStart,
                   exc, extVars>>
    /\ UNCHANGED <<pureVars, histVars>>

\* cleanup(): self.qosium.cleanup()
CleanupQosium(t) ==
    /\ Quiet
    /\ bgpc[t] = "cleanup_qosium"
    /\ \/ /\ bgpc' = [bgpc EXCEPT ![t] = "cleanup_ovs"]
          /\ UNCHANGED exc
       \/ Raise(t, "cleanup_qosium", "qosium cleanup failed")
    /\ UNCHANGED <<lockVars, thread, stopEvent, expVars, now, pc, ret, nstOk, lastStart,
                   wake, ovs>>
    /\ UNCHANGED <<pureVars, histVars>>

\* cleanup() that goes on to DONE when the reset of the shaper fails
CleanupOvs_Swallow(t) ==
    /\ Quiet
    /\ bgpc[t] = "cleanup_ovs"
    /\ ovs' = "zero"
    /\ bgpc' = [bgpc EXCEPT ![t] = "done_status"]
    /\ \/ UNCHANGED exc
       \/ exc' = [exc EXCEPT ![t] = "ovs failed"]
    /\ UNCHANGED <<lockVars, thread, stopEvent, expVars, now, pc, ret, nstOk, lastStart,
                   wake>>
    /\ UNCHANGED <<pureVars, histVars>>

\* cleanup(): self.ovs.setDownlinkUplinkValues(zero batch)
CleanupOvs(t) ==
    /\ Quiet
    /\ bgpc[t] = "cleanup_ovs"
    /\ ovs' = "zero"
    /\ \/ /\ bgpc' = [bgpc EXCEPT ![t] = "done_status"]
          /\ UNCHANGED exc
       \/ Raise(t, "cleanup_ovs", "ovs failed")
    /\ UNCHANGED <<lockVars, thread, stopEvent, expVars, now, pc, ret, nstOk, lastStart,
                   wake>>
    /\ UNCHANGED <<pureVars, histVars>>

\* run() whose last self.qosium.cleanup() reports its failure as a status
FinalQosium_Reports(t) ==
    /\ Quiet
    /\ bgpc[t] = "final_qosium"
    /\ \/ /\ bgpc' = [bgpc EXCEPT ![t] = "exited"]
          /\ UNCHANGED exc
       \/ /\ bgpc' = [bgpc EXCEPT ![t] = "error_status"]
          /\ exc' = [exc EXCEPT ![t] = "final qosium cleanup failed"]
    /\ UNCHANGED <<lockVars, thread, stopEvent, expVars, now, pc, ret, nstOk, lastStart,
                   wake, extVars>>
    /\ UNCHANGED <<pureVars, histVars>>

\* run(): the last self.qosium.cleanup() returns, or raises into
\* `except Exception as e: pass`; the thread exits
FinalQosium(t) ==
    /\ Quiet
    /\ bgpc[t] = "final_qosium"
    /\ bgpc' = [bgpc EXCEPT ![t] = "exited"]
    /\ \/ UNCHANGED exc
       \/ exc' = [exc EXCEPT ![t] = "final qosium cleanup failed"]
    /\ UNCHANGED <<lockVars, thread, stopEvent, expVars, now, pc, ret, nstOk, lastStart,
                   wake, extVars>>
    /\ UNCHANGED <<pureVars, histVars>>

\* ------------------------------------------------------- specification
CallerStep(c) ==
    \/ StartEnter(c) \/ StartCheck(c) \/ LoadReset(c) \/ LoadValidate(c)
    \/ StartRaise(c) \/ StartClearEvent(c) \/ StartSpawn(c) \/ StartReturn(c)
    \/ StopEnter(c) \/ StopCheck(c) \/ StopRaise(c) \/ StopSignal(c)
    \/ StopJoin(c) \/ StopGetLog(c) \/ StopResetState(c) \/ StopResetMessage(c)
    \/ StopClearThread(c) \/ StopReturn(c)
    \/ GetStatus(c) \/ Return(c)

ThreadStep(t) ==
    \/ SetStatusState(t) \/ SetStatusMessage(t)
    \/ InitQosium(t) \/ InitOvs(t)
    \/ ExecCheckEvent(t) \/ ExecCheckClock(t) \/ ExecSleep(t)
    \/ LoopCheckClock(t) \/ LoopCheckEvent(t)
    \/ IterKpis(t) \/ IterLogKpis(t) \/ IterAi(t) \/ IterOvs(t)
    \/ IterLogDl(t) \/ IterLogUl(t) \/ LoopSleep(t) \/ LoopWake(t)
    \/ CleanupQosium(t) \/ CleanupOvs(t) \/ FinalQosium(t)

Next ==
    \/ Tick
    \/ \E c \in Callers : CallerStep(c)
    \/ \E t \in Threads : ThreadStep(t)

Spec == Init /\ [][Next]_vars

\* ------------------------------------------------ the scheduled program
\* One client starts and stops runs, with valid templates that name no
\* application and no slice or two, while another polls the status; the client
\* stops with the id it was given; the threads are scheduled.

\* load() of a valid template without applications, with no slice or with two
LiveLoadValidate(c) ==
    LoadValidate(c) /\ nstOk' = "valid" /\ apps' = <<>> /\ Len(slices') \in {0, 2}

\* stop(id) with the id that start() returned
LiveStopEnter(c) == StopEnter(c) /\ ret'[c].id = StaticId

\* the handlers of POST /experiment and DELETE /experiment/<id>
Client(c) ==
    \/ StartEnter(c) \/ StartCheck(c) \/ LoadReset(c) \/ LiveLoadValidate(c)
    \/ StartRaise(c) \/ StartClearEvent(c) \/ StartSpawn(c) \/ StartReturn(c)
    \/ LiveStopEnter(c) \/ StopCheck(c) \/ StopRaise(c) \/ StopSignal(c)
    \/ StopJoin(c) \/ StopGetLog(c) \/ StopResetState(c) \/ StopResetMessage(c)
    \/ StopClearThread(c) \/ StopReturn(c) \/ Return(c)

\* the handlers of GET /experiment
Poller(c) == GetStatus(c) \/ Return(c)

LiveNext ==
    \/ Tick
    \/ Client("c1")
    \/ Poller("c2")
    \/ \E t \in Threads : ThreadStep(t)

\* a request handler that has begun goes on: Flask runs each request in a
\* thread of its own (nna.py:71); whether a new request arrives is up to the
\* clients
ClientProgress(c) == pc[c] # "idle" /\ Client(c)

\* The interpreter lets every thread run, the clock advances and every sleep
\* ends. Fairness is strong because a step of one thread is momentarily
\* disabled in the states where a handler is handing back its result.
Fairness ==
    /\ SF_vars(Tick)
    /\ SF_vars(ClientProgress("c1"))
    /\ SF_vars(Return("c2"))
    /\ \A t \in Threads : SF_vars(ThreadStep(t))

LiveSpec == Init /\ [][LiveNext]_vars /\ Fairness

\* ------------------------------------------------ the program after a stop()
\* The controller once a run with no slices, started at 0 for the instant 0,
\* has been ended by stop(): the stop event is still set, the times are those
\* of that run, and the shaper has received nothing or the zero batch.
StoppedInit ==
    /\ runningLock = None
    /\ statusLock = None
    /\ thread = None
    /\ stopEvent = TRUE
    /\ id = NoId
    /\ state = STATE_READY
    /\ message = None
    /\ msgOf = STATE_READY
    /\ log = <<>>
    /\ nst = NoNst
    /\ startTime = 0
    /\ stopTime = 0
    /\ slices = <<>>
    /\ apps = <<>>
    /\ now \in 0..MaxTime
    /\ pc = [c \in Callers |-> "idle"]
    /\ ret = [c \in Callers |-> NoRet]
    /\ nstOk = "na"
    /\ lastStart = [kind |-> "start", id |-> StaticId,
                    defaultSliceId |-> DefaultSliceId, slices |-> <<>>]
    /\ bgpc = [t \in Threads |-> "unborn"]
    /\ exc = [t \in Threads |-> None]
    /\ wake = [t \in Threads |-> 0]
    /\ ovs \in {"none", "zero"}
    /\ late \in BOOLEAN
    /\ late => ovs = "zero"
    /\ early = FALSE
    /\ joins = 1
    /\ iter = <<>>
    /\ calc = NoCalc
    /\ sw = NoSw

RestartSpec == StoppedInit /\ [][LiveNext]_vars /\ Fairness

\* ------------------------------------- specification of calculateBurst()
\* calculateBurst() is called with any of the rates, on a controller as
\* constructed
BurstInit ==
    /\ runningLock = None
    /\ statusLock = None
    /\ thread = None
    /\ stopEvent = FALSE
    /\ id = NoId
    /\ state = STATE_READY
    /\ message = None
    /\ msgOf = STATE_READY
    /\ log = <<>>
    /\ nst = NoNst
    /\ startTime = NoTime
    /\ stopTime = NoTime
    /\ slices = <<>>
    /\ apps = <<>>
    /\ now = 0
    /\ pc = [c \in Callers |-> "idle"]
    /\ ret = [c \in Callers |-> NoRet]
    /\ nstOk = "na"
    /\ lastStart = NoRet
    /\ bgpc = [t \in Threads |-> "unborn"]
    /\ exc = [t \in Threads |-> None]
    /\ wake = [t \in Threads |-> 0]
    /\ ovs = "none"
    /\ early = FALSE
    /\ joins = 0
    /\ late = FALSE
    /\ iter = <<>>
    /\ calc \in {[rate |-> r, burst |-> NoBurst] : r \in Rates}
    /\ sw = NoSw

\* burst = calculateBurst(rate)
CalculateBurst ==
    /\ calc.burst = NoBurst
    /\ calc' = [calc EXCEPT !.burst = calculateBurst(calc.rate)]
    /\ UNCHANGED <<lockVars, thread, stopEvent, expVars, now, pc, ret, nstOk, lastStart,
                   bgVars, extVars, histVars, sw>>

BurstNext == CalculateBurst

BurstSpec == BurstInit /\ [][BurstNext]_vars

\* --------------------------------- specification of adjustSwitchValues()
\* adjustSwitchValues() is called with any four fractions, on a controller as
\* constructed
SwitchInit ==
    /\ runningLock = None
    /\ statusLock = None
    /\ thread = None
    /\ stopEvent = FALSE
    /\ id = NoId
    /\ state = STATE_READY
    /\ message = None
    /\ msgOf = STATE_READY
    /\ log = <<>>
    /\ nst = NoNst
    /\ startTime = NoTime
    /\ stopTime = NoTime
    /\ slices = <<>>
    /\ apps = <<>>
    /\ now = 0
    /\ pc = [c \in Callers |-> "idle"]
    /\ ret = [c \in Callers |-> NoRet]
    /\ nstOk = "na"
    /\ lastStart = NoRet
    /\ bgpc = [t \in Threads |-> "unborn"]
    /\ exc = [t \in Threads |-> None]
    /\ wake = [t \in Threads |-> 0]
    /\ ovs = "none"
    /\ early = FALSE
    /\ joins = 0
    /\ late = FALSE
    /\ iter = <<>>
    /\ calc = NoCalc
    /\ sw \in {[alloc |-> a, sent |-> <<>>] :
                 a \in Fractions \X Fractions \X Fractions \X Fractions}

\* self.ovs.setDownlinkUplinkValues(ovsValues)
AdjustSwitchValues ==
    /\ sw.sent = <<>>
    /\ sw' = [sw EXCEPT !.sent = Append(@, adjustSwitchValues(sw.alloc[1], sw.alloc[2],
                                                              sw.alloc[3], sw.alloc[4]))]
    /\ UNCHANGED <<lockVars, thread, stopEvent, expVars, now, pc, ret, nstOk, lastStart,
                   bgVars, extVars, histVars, calc>>

SwitchNext == AdjustSwitchValues

SwitchSpec == SwitchInit /\ [][SwitchNext]_vars

\* ================================================================ claims
Exists(t) == bgpc[t] # "unborn"
Running(t) == bgpc[t] \notin {"unborn", "exited"}
Step(c) == pc'[c] # pc[c]
\* the fields of the experiment a caller can observe
Observable == <<id, state, message, log, slices>>
IdleFields ==
    /\ id = NoId /\ state = STATE_READY /\ message = None /\ log = <<>>
    /\ slices = <<>> /\ apps = <<>>

\* C1: under every interleaving of start() and stop() at most one background
\* task exists, and a start() that finds an experiment active fails with the
\* 'already running' error, spawns nothing and leaves id, state, message, log
\* and slices as they are.
C1_AtMostOneTask == Cardinality({t \in Threads : Exists(t)}) <= 1
C1_StartWhileActiveStep ==
    \A c \in Callers :
      /\ (pc[c] = "start_check" /\ thread # None /\ Step(c))
            => /\ pc'[c] = "start_raise_running"
               /\ UNCHANGED <<Observable, thread, bgpc, stopEvent>>
      /\ (pc[c] = "start_raise_running" /\ Step(c))
            => /\ pc'[c] = "idle"
               /\ UNCHANGED <<Observable, thread, bgpc, stopEvent>>
C1_MutualExclusion == []C1_AtMostOneTask /\ [][C1_StartWhileActiveStep]_vars
C1_Witness ==
    \E c \in Callers :
      pc[c] = "start_raise_running" /\ thread # None /\ Running(thread)

\* C2: stop(id) of the active experiment sets the cancellation flag, goes past
\* its join only when the background task has exited, and when it returns the
\* controller is idle: no id, READY, no message, empty log, no slices, no
\* applications, no thread handle.
C2_StopLeavesIdle ==
    \A c \in Callers :
      /\ pc[c] \in {"stop_join", "stop_getlog", "stop_reset", "stop_reset_message",
                    "stop_clear", "stop_return"} => stopEvent
      /\ pc[c] \in {"stop_getlog", "stop_reset", "stop_reset_message", "stop_clear"}
            => thread # None /\ bgpc[thread] = "exited"
      /\ pc[c] = "stop_return"
            => /\ IdleFields
               /\ thread = None
               /\ \A t \in Threads : ~Exists(t)
C2_Witness ==
    \E c \in Callers : pc[c] = "stop_return" /\ ret[c].log # <<>> /\ lastStart # NoRet

\* C3: stop(id) fails with the 'not found' error when no experiment is active or
\* the id is not the active one; it then leaves the cancellation flag, the
\* background task and id, state, message, log and slices as they are.
C3_NotFoundStep ==
    \A c \in Callers :
      /\ (pc[c] = "stop_check" /\ (thread = None \/ id # ret[c].id) /\ Step(c))
            => /\ pc'[c] = "stop_raise"
               /\ UNCHANGED <<Observable, thread, bgpc, stopEvent>>
      /\ (pc[c] = "stop_raise" /\ Step(c))
            => /\ pc'[c] = "idle"
               /\ UNCHANGED <<Observable, thread, bgpc, stopEvent>>
C3_StopNotFound == [][C3_NotFoundStep]_vars
C3_Witness ==
    \E c \in Callers :
      /\ pc[c] = "stop_raise" /\ ret[c].id # id
      /\ thread # None /\ Running(thread) /\ ~stopEvent

\* C4: a template that is not valid makes load() and start() fail, and the
\* failure leaves id, state, message, log, slices and applications as they are
\* when idle and spawns no background task.
C4_InvalidTemplateLeavesIdle ==
    \A c \in Callers :
      (pc[c] \in {"start_thread", "start_raise_invalid"} /\ nstOk = "invalid")
         => /\ pc[c] = "start_raise_invalid"
            /\ IdleFields
            /\ thread = None
            /\ \A t \in Threads : ~Exists(t)

\* C5 as stated: for every valid template load() returns normally with state
\* READY, no message, an empty log and an id, and nothing has been spawned.
C5_EveryValidTemplateLoads ==
    \A c \in Callers :
      (pc[c] \in {"start_thread", "start_raise_invalid"}
          /\ nstOk \in {"valid", "valid-empty-type"})
         => /\ pc[c] = "start_thread"
            /\ state = STATE_READY /\ message = None /\ log = <<>> /\ id # NoId
            /\ thread = None
            /\ \A t \in Threads : ~Exists(t)

\* C5: for every valid template none of whose slice types is the empty string,
\* load() returns normally with state READY, no message, an empty log and an
\* id; no step of load() spawns a task, touches the cancellation flag or
\* calls the traffic shaper.
C5_Loaded ==
    \A c \in Callers :
      (pc[c] \in {"start_thread", "start_raise_invalid"} /\ nstOk = "valid")
         => /\ pc[c] = "start_thread"
            /\ state = STATE_READY /\ message = None /\ log = <<>> /\ id # NoId
            /\ thread = None
            /\ \A t \in Threads : ~Exists(t)
C5_LoadStep ==
    \A c \in Callers :
      (pc[c] \in {"load_enter", "load_validate"} /\ Step(c))
         => UNCHANGED <<thread, bgpc, exc, wake, stopEvent, ovs>>
C5_ValidLoad == []C5_Loaded /\ [][C5_LoadStep]_vars
C5_Witness ==
    \E c \in Callers :
      pc[c] = "start_thread" /\ nstOk = "valid" /\ Len(slices) = 2 /\ Len(apps) = 1

\* C6 as stated: in every reachable state the id is non-null if and only if a
\* background task is running.
C6_IdIffRunning == (id # NoId) <=> (\E t \in Threads : Running(t))

\* C6: the id is non-null exactly while the thread handle is held and stop()
\* has not begun its reset, or while start() is between its load and its
\* spawn; so whenever no start() or stop() is in progress the id is non-null
\* if and only if a background task, running or finished, is held.
C6_IdIffHandle ==
    /\ (id # NoId) <=>
          \/ /\ thread # None
             /\ \A c \in Callers : pc[c] \notin {"stop_reset_message", "stop_clear"}
          \/ \E c \in Callers : pc[c] \in {"start_thread", "start_spawn"}
    /\ runningLock = None => ((id # NoId) <=> (thread # None))
C6_Witness ==
    /\ runningLock = None /\ id # NoId
    /\ thread # None /\ bgpc[thread] = "exited" /\ state = STATE_DONE

\* C7: every value getStatus() returns carries a state and a message written
\* by one update, and a message other than none only with the state ERROR.
C7_StatusWrittenTogether ==
    \A c \in Callers :
      pc[c] = "status_done"
         => /\ ret[c].msgOf = ret[c].state
            /\ ret[c].message # None => ret[c].state = STATE_ERROR
C7_Witness ==
    \E c \in Callers :
      /\ pc[c] = "status_done"
      /\ ret[c].state = STATE_ERROR /\ ret[c].message # None

\* C8: the statusLock that getStatus() needs is never held across a join, a
\* sleep or a remote call: its holder is at a step that releases it; and the
\* value getStatus() returns when the controller is idle has no id.
C8_StatusNeverBlocked ==
    /\ statusLock \in Callers
          => pc[statusLock] \in {"load_validate", "stop_reset_message"}
    /\ statusLock \in Threads
          => bgpc[statusLock] \in {k.at : k \in StatusCalls}
    /\ \A c \in Callers :
          (pc[c] = "status_done" /\ thread = None /\ runningLock = None)
             => ret[c].id = NoId
C8_Witness ==
    \E c \in Callers : \E d \in Callers :
      /\ pc[c] = "status_done" /\ ret[c].state = STATE_EXECUTE
      /\ pc[d] = "stop_join"
      /\ thread # None /\ bgpc[thread] = "loop_sleeping"

\* C9 as stated: after a stop() the state is READY, and the next start() with
\* any valid template passes the check of the handle, loads and spawns.
C9_AfterStopState ==
    \A c \in Callers :
      /\ pc[c] = "stop_return" => state = STATE_READY /\ thread = None
      /\ pc[c] = "start_spawn" => \A t \in Threads : ~Exists(t)
C9_HandleStep == (thread = None /\ thread' # None) => \E c \in Callers : pc[c] = "start_spawn"
C9_StartStep ==
    \A c \in Callers :
      /\ (pc[c] = "start_check" /\ thread = None /\ Step(c)) => pc'[c] = "load_enter"
      /\ (pc[c] = "start_thread" /\ Step(c)) => pc'[c] = "start_spawn"
      /\ (pc[c] = "start_spawn" /\ Step(c))
            => /\ thread' # None
               /\ bgpc[thread'] = "unborn" /\ bgpc'[thread'] = "init_status"
C9_EveryValidStartStep ==
    \A c \in Callers :
      (pc[c] = "load_validate" /\ Step(c) /\ nstOk' \in {"valid", "valid-empty-type"})
         => pc'[c] = "start_thread"
C9_EveryValidStartAccepted ==
    /\ []C9_AfterStopState
    /\ [][C9_HandleStep /\ C9_StartStep /\ C9_EveryValidStartStep]_vars

\* C9: after a stop() the state is READY and no handle is held; no handle
\* appears but by a start(); a start() that finds no handle does not fail
\* with 'already running', and with a valid template none of whose slice
\* types is the empty string it loads and spawns a new background task.
C9_ValidStartStep ==
    \A c \in Callers :
      (pc[c] = "load_validate" /\ Step(c) /\ nstOk' = "valid")
         => pc'[c] = "start_thread"
C9_StartAfterStop ==
    /\ []C9_AfterStopState
    /\ [][C9_HandleStep /\ C9_StartStep /\ C9_ValidStartStep]_vars
C9_Witness ==
    \E c \in Callers :
      /\ pc[c] = "start_return" /\ ovs = "zero"
      /\ thread # None /\ bgpc[thread] = "init_status"

\* C10: the value a successful start() returns holds the static id, the
\* configured default slice id and, for each slice type of the template in
\* order, a record with that type and the configured slice id of its
\* position; the returned value changes with no later step.
C10_Expected(r) ==
    /\ r.id = StaticId
    /\ r.defaultSliceId = "default-slice"
    /\ Len(r.slices) = Len(nst.slices)
    /\ \A i \in 1..Len(r.slices) :
          r.slices[i] = [type |-> nst.slices[i], id |-> ConfigSlices[i].id]
C10_Returned ==
    \A c \in Callers : pc[c] = "start_done" => ret[c] = lastStart /\ C10_Expected(ret[c])
C10_CopyStep ==
    lastStart' # lastStart => \E c \in Callers : pc[c] = "start_return" /\ pc'[c] = "start_done"
C10_StartResult == []C10_Returned /\ [][C10_CopyStep]_vars
C10_Witness ==
    /\ lastStart # NoRet /\ Len(lastStart.slices) = 2
    /\ lastStart.slices[2] = [type |-> "uRLLC", id |-> "slice-id-2"]
    /\ slices = <<>> /\ thread = None /\ runningLock = None

\* a step in which the background thread sets the state: setStatus() takes the
\* statusLock and assigns self.state
SetByThread == state' # state /\ statusLock' \in Threads
\* a step in which a request thread sets the state
SetByCaller == state' # state /\ statusLock' \notin Threads

\* C11 as stated: the background task changes the state only along
\* READY -> INITIALIZE -> EXECUTE -> CLEANUP -> DONE, or to ERROR from
\* INITIALIZE, EXECUTE or CLEANUP.
C11_StatedTransitions ==
    { <<STATE_READY, STATE_INITIALIZE>>, <<STATE_INITIALIZE, STATE_EXECUTE>>,
      <<STATE_EXECUTE, STATE_CLEANUP>>, <<STATE_CLEANUP, STATE_DONE>>,
      <<STATE_INITIALIZE, STATE_ERROR>>, <<STATE_EXECUTE, STATE_ERROR>>,
      <<STATE_CLEANUP, STATE_ERROR>> }
C11_StatedStep == SetByThread => <<state, state'>> \in C11_StatedTransitions
C11_OnlyStatedTransitions == [][C11_StatedStep]_vars

\* C11: the background task changes the state only along
\* READY -> INITIALIZE -> EXECUTE -> CLEANUP -> DONE, from INITIALIZE straight
\* to CLEANUP (cancelled before the start time), or to ERROR from INITIALIZE,
\* EXECUTE or CLEANUP; every other change of the state is a reset to READY by
\* load() or stop().
C11_RunStep ==
    SetByThread => <<state, state'>> \in
                      (C11_StatedTransitions \cup {<<STATE_INITIALIZE, STATE_CLEANUP>>})
C11_ResetStep ==
    SetByCaller => /\ state' = STATE_READY
                   /\ \E c \in Callers : pc[c] \in {"load_enter", "stop_reset"} /\ Step(c)
C11_Transitions == [][C11_RunStep /\ C11_ResetStep]_vars
C11_Witness ==
    /\ thread # None /\ bgpc[thread] = "cleanup_qosium"
    /\ state = STATE_CLEANUP /\ now < startTime /\ stopEvent

Terminal == {STATE_DONE, STATE_ERROR}

\* C12 as stated: once the state is DONE or ERROR nothing changes it but a
\* load(), which resets it to READY.
C12_OnlyLoadStep ==
    (state \in Terminal /\ state' # state)
       => /\ state' = STATE_READY
          /\ \E c \in Callers : pc[c] = "load_enter" /\ Step(c)
C12_OnlyLoadLeavesTerminal == [][C12_OnlyLoadStep]_vars

\* C12: once the state is DONE or ERROR the background task never changes it;
\* the only step that changes it is the reset of stop(), to READY, and a
\* load() always finds the state READY already.
C12_LoadFindsReady ==
    \A c \in Callers : pc[c] \in {"load_enter", "load_validate"} => state = STATE_READY
C12_TerminalStep ==
    (state \in Terminal /\ state' # state)
       => /\ state' = STATE_READY
          /\ \E c \in Callers : pc[c] = "stop_reset" /\ Step(c)
C12_Terminal == []C12_LoadFindsReady /\ [][C12_TerminalStep]_vars
C12_Witness ==
    \E c \in Callers :
      /\ pc[c] = "stop_reset_message" /\ state = STATE_READY
      /\ message # None /\ msgOf = STATE_ERROR

\* the positions of the thread inside one control-loop iteration
IterationPcs == {"iter_kpis", "iter_log_kpis", "iter_ai", "iter_ovs",
                 "iter_log_dl", "iter_log_ul"}

\* C13: when stop() sets the stop event before the clock has reached the start
\* time, the state is never EXECUTE in that run and the thread is never inside
\* a control-loop iteration.
C13_EarlyStopSkipsExecute ==
    early => /\ state # STATE_EXECUTE
             /\ \A t \in Threads : bgpc[t] \notin IterationPcs
\* the part of C13 that holds: no iteration in a run stopped before its start
C13_EarlyStopNoIteration == early => \A t \in Threads : bgpc[t] \notin IterationPcs

\* the positions of the thread inside the inner loop of execute()
LoopPcs == IterationPcs \cup {"loop_clock", "loop_event", "loop_sleep", "loop_sleeping"}
\* the remote calls of one iteration and the position after each
RemoteCalls == { <<"iter_kpis", "iter_log_kpis">>, <<"iter_ai", "iter_ovs">>,
                 <<"iter_ovs", "iter_log_dl">> }

\* C14: a remote call of an iteration that fails leaves the state EXECUTE and
\* the message as they are and takes the thread to the sleep of the loop; the
\* sleep ends only after the update interval, and then, the stop time not
\* reached and the stop event not set, the next iteration begins.
C14_InLoop ==
    \A t \in Threads : bgpc[t] \in LoopPcs => state = STATE_EXECUTE /\ message = None
C14_LoopStep ==
    \A t \in Threads :
      /\ \A k \in RemoteCalls :
            (bgpc[t] = k[1] /\ bgpc'[t] # bgpc[t])
               => /\ bgpc'[t] \in {k[2], "loop_sleep"}
                  /\ UNCHANGED <<state, message, exc, stopEvent>>
      /\ (bgpc[t] = "loop_sleep" /\ bgpc'[t] # bgpc[t])
            => bgpc'[t] = "loop_sleeping" /\ wake'[t] = Min(now + UpdateInterval, MaxTime)
      /\ (bgpc[t] = "loop_sleeping" /\ bgpc'[t] # bgpc[t])
            => bgpc'[t] = "loop_clock" /\ now >= wake[t]
      /\ (bgpc[t] = "loop_clock" /\ bgpc'[t] # bgpc[t] /\ now < stopTime)
            => bgpc'[t] = "loop_event"
      /\ (bgpc[t] = "loop_event" /\ bgpc'[t] # bgpc[t] /\ ~stopEvent /\ Len(slices) = 2)
            => bgpc'[t] = "iter_kpis"
C14_IterationFailureRecovered == []C14_InLoop /\ [][C14_LoopStep]_vars
C14_Witness ==
    /\ thread # None /\ bgpc[thread] = "iter_kpis" /\ state = STATE_EXECUTE
    /\ ovs = "allocation" /\ "Set DL slice allocation" \notin Range(log)

\* C15: in a run with no slice or one slice the thread is never inside an
\* iteration (no KPI fetch, no inference, no allocation sent to the shaper:
\* the only batch sent is the zero batch), the loop goes on sleeping, and the
\* thread leaves the loop only when the stop time is reached or the stop event
\* is set; the state DONE is then set from CLEANUP.
C15_NoIteration ==
    (thread # None /\ Running(thread) /\ Len(slices) < 2)
       => bgpc[thread] \notin IterationPcs
C15_WindowStep ==
    \A t \in Threads :
      (t = thread /\ Len(slices) < 2)
         => /\ ovs' # ovs => ovs' = "zero"
            /\ (bgpc[t] = "loop_event" /\ bgpc'[t] # bgpc[t] /\ ~stopEvent)
                  => bgpc'[t] = "loop_sleep"
            /\ (bgpc[t] \in LoopPcs /\ bgpc'[t] \notin LoopPcs)
                  => /\ bgpc'[t] = "cleanup_status"
                     /\ now >= stopTime \/ stopEvent
            /\ (state' = STATE_DONE /\ state # STATE_DONE) => state = STATE_CLEANUP
C15_FewerThanTwoSlices == []C15_NoIteration /\ [][C15_WindowStep]_vars
C15_Witness ==
    /\ thread # None /\ bgpc[thread] = "exited" /\ state = STATE_DONE
    /\ Len(slices) = 1 /\ ~stopEvent /\ log = <<>> /\ ovs = "zero"
    /\ startTime < stopTime /\ now >= stopTime

\* C16: whenever the background thread has exited, the measurement teardown
\* and the reset of the shaper to zero were both attempted in that run, so the
\* last batch sent to the shaper is the zero batch.
C16_TeardownAlwaysAttempted ==
    \A t \in Threads : bgpc[t] = "exited" => ovs = "zero"
\* the part of C16 that holds: the thread exits only through the last
\* self.qosium.cleanup() of run()
C16_FinalQosiumStep ==
    \A t \in Threads : (bgpc'[t] = "exited" /\ bgpc[t] # "exited") => bgpc[t] = "final_qosium"
C16_MeasurementTeardownAttempted == [][C16_FinalQosiumStep]_vars

\* stop() is between its reset of the state and its release of the handle
StopResetting == \E c \in Callers : pc[c] \in {"stop_reset_message", "stop_clear"}

\* C17: the last measurement teardown of run(), failing or not, ends the
\* thread and changes neither the state nor the message; from then until
\* stop() resets them the state is DONE with no message or ERROR with its
\* message, and that is what getStatus() returns.
C17_StatusKept ==
    /\ (thread # None /\ bgpc[thread] \in {"final_qosium", "exited"} /\ ~StopResetting)
          => /\ state \in Terminal
             /\ state = STATE_DONE => message = None
             /\ state = STATE_ERROR => message # None /\ msgOf = STATE_ERROR
    /\ \A c \in Callers :
          (pc[c] = "status_done" /\ thread # None /\ bgpc[thread] = "exited"
              /\ ~StopResetting)
             => /\ ret[c].state = state /\ ret[c].message = message
                /\ ret[c].state \in Terminal
C17_FinalStep ==
    \A t \in Threads :
      (bgpc[t] = "final_qosium" /\ bgpc'[t] # bgpc[t])
         => bgpc'[t] = "exited" /\ UNCHANGED <<state, message, msgOf>>
C17_FinalTeardownSwallowed == []C17_StatusKept /\ [][C17_FinalStep]_vars
C17_Witness ==
    \E c \in Callers :
      /\ pc[c] = "status_done" /\ thread # None /\ bgpc[thread] = "exited"
      /\ exc[thread] = "final qosium cleanup failed"
      /\ ret[c].state = STATE_ERROR /\ ret[c].message = "qosium cleanup failed"

\* the positions of the thread from the handler of run() to its exit
ErrorPath == {"error_status", "final_qosium", "exited"}

\* C18: a collaborator call of init() that fails takes the thread to the
\* handler of run() with the failure's message; the handler sets ERROR with
\* that message and the thread goes on to the final teardown and exits, so
\* the thread sets no other state, makes no KPI fetch and no inference call,
\* and the state stays ERROR until stop() resets it.
C18_Handler ==
    \A t \in Threads :
      /\ bgpc[t] = "error_status" => exc[t] # None /\ t = thread
      /\ (exc[t] = "qosium initialize failed" /\ ~StopResetting)
            => /\ bgpc[t] \in ErrorPath
               /\ state \in {STATE_INITIALIZE, STATE_ERROR}
               /\ log = <<>>
C18_InitStep ==
    \A t \in Threads :
      /\ (bgpc[t] = "init_qosium" /\ bgpc'[t] # bgpc[t])
            => \/ bgpc'[t] = "init_ovs" /\ UNCHANGED exc
               \/ /\ bgpc'[t] = "error_status" /\ exc'[t] = "qosium initialize failed"
                  /\ state = STATE_INITIALIZE /\ UNCHANGED <<state, message>>
      /\ (bgpc[t] = "init_ovs" /\ bgpc'[t] # bgpc[t])
            => \/ bgpc'[t] = "exec_event" /\ UNCHANGED exc
               \/ /\ bgpc'[t] = "error_status" /\ exc'[t] = "ovs failed"
                  /\ state = STATE_INITIALIZE /\ UNCHANGED <<state, message>>
      /\ (bgpc[t] = "error_status" /\ bgpc'[t] # bgpc[t])
            => /\ bgpc'[t] = "final_qosium"
               /\ state' = STATE_ERROR /\ message' = exc[t]
      /\ (bgpc[t] \in ErrorPath /\ bgpc'[t] # bgpc[t])
            => bgpc'[t] \in ErrorPath \cup {"unborn"}
      /\ (bgpc[t] \in ErrorPath /\ t = thread /\ state' # state)
            => \/ state' = STATE_ERROR /\ bgpc[t] = "error_status"
               \/ state' = STATE_READY /\ bgpc[t] = "exited"
C18_InitFailure == []C18_Handler /\ [][C18_InitStep]_vars
C18_Witness ==
    /\ thread # None /\ bgpc[thread] = "exited"
    /\ state = STATE_ERROR /\ message = "ovs failed"
    /\ ~stopEvent /\ now < startTime /\ log = <<>>

\* the positions of stop() after it has captured the log
AfterCapture == {"stop_reset", "stop_reset_message", "stop_clear", "stop_return"}

\* C19: the log changes only by the thread appending one line or by the reset
\* of load() or stop(); stop() captures it when the thread has exited, the
\* captured value is the whole log, it is the value stop() returns, and no
\* line is appended once it is captured.
C19_Captured ==
    \A c \in Callers :
      /\ pc[c] \in AfterCapture => ret[c].kind = "log"
      /\ pc[c] = "stop_reset" => ret[c].log = log
      /\ pc[c] \in AfterCapture \ {"stop_return"} => thread # None /\ bgpc[thread] = "exited"
C19_LogStep ==
    /\ log' # log
          => \/ /\ Len(log') = Len(log) + 1
                /\ SubSeq(log', 1, Len(log)) = log
                /\ \E t \in Threads : t = thread /\ bgpc'[t] # bgpc[t]
                /\ \A c \in Callers : pc[c] \notin AfterCapture
             \/ /\ log' = <<>>
                /\ \E c \in Callers : pc[c] \in {"load_enter", "stop_reset"} /\ Step(c)
    /\ \A c \in Callers :
          (pc[c] \in AfterCapture /\ pc'[c] \in AfterCapture) => ret'[c] = ret[c]
C19_ReturnedLog == []C19_Captured /\ [][C19_LogStep]_vars
C19_Witness ==
    \E c \in Callers :
      /\ pc[c] = "stop_reset" /\ state = STATE_ERROR
      /\ ret[c].log = <<"Got KPIs from Qosium", "Set DL slice allocation",
                        "Set UL slice allocation">>

\* C20: for every rate, calculateBurst(rate) is an integer nearest to
\* (rate / 8) * 1.5 = 3 * rate / 16 (of two equally near ones, the even one),
\* and calculateBurst(10000) = 1875.
C20_BurstIsRounded ==
    calc.burst # NoBurst
       => /\ 16 * calc.burst - 3 * calc.rate \in -8..8
          /\ (16 * calc.burst - 3 * calc.rate \in {-8, 8}) => calc.burst % 2 = 0
          /\ calc.rate = 10000 => calc.burst = 1875
C20_Witness == calc.rate = 10000 /\ calc.burst = 1875

\* `rate` is an integer nearest to num * bandwidth / FracDen
NearestRate(rate, num, bandwidth) ==
    2 * (FracDen * rate - num * bandwidth) \in -FracDen..FracDen

\* C21: adjustSwitchValues() sends one batch of two commands, for slice 1 then
\* slice 2; each downlink rate is the downlink fraction of its slice times the
\* maximum downlink bandwidth, rounded, each uplink rate likewise with the
\* uplink bandwidth, and each burst is calculateBurst of its rate; for
\* downlink 0.3/0.7 and uplink 0.5/0.5 the commands are 120000/22500 and
\* 30000/5625 for slice 1, 280000/52500 and 30000/5625 for slice 2.
C21_BatchSent ==
    sw.sent # <<>>
       => /\ Len(sw.sent) = 1 /\ Len(sw.sent[1]) = 2
          /\ \A i \in 1..2 :
                LET cmd == sw.sent[1][i] IN
                  /\ NearestRate(cmd.dl.rate, sw.alloc[i], 400000)
                  /\ NearestRate(cmd.ul.rate, sw.alloc[2 + i], 60000)
                  /\ cmd.dl.burst = calculateBurst(cmd.dl.rate)
                  /\ cmd.ul.burst = calculateBurst(cmd.ul.rate)
          /\ (/\ 10 * sw.alloc[1] = 3 * FracDen /\ 10 * sw.alloc[2] = 7 * FracDen
              /\ 10 * sw.alloc[3] = 5 * FracDen /\ 10 * sw.alloc[4] = 5 * FracDen)
                => sw.sent[1] =
                      << [dl |-> [rate |-> 120000, burst |-> 22500],
                          ul |-> [rate |-> 30000, burst |-> 5625]],
                         [dl |-> [rate |-> 280000, burst |-> 52500],
                          ul |-> [rate |-> 30000, burst |-> 5625]] >>
C21_Witness ==
    /\ 10 * sw.alloc[1] = 3 * FracDen /\ 10 * sw.alloc[2] = 7 * FracDen
    /\ 10 * sw.alloc[3] = 5 * FracDen /\ 10 * sw.alloc[4] = 5 * FracDen
    /\ Len(sw.sent) = 1 /\ sw.sent[1][2].dl = [rate |-> 280000, burst |-> 52500]

\* the steps of one control-loop iteration, in the order of execute()
IterOrder ==
    << "getKpisPerSlice", "Got KPIs from Qosium", "processKpis", "adjustSwitchValues",
       "Set DL slice allocation", "Set UL slice allocation" >>
\* the steps that are calls to a collaborator
IterCalls == {"getKpisPerSlice", "processKpis", "adjustSwitchValues"}
Last(s) == s[Len(s)]

\* what the iteration has done is a beginning of the stated order, closed by a
\* failure only when its last step is a collaborator call
C22_InOrder ==
    \E n \in 0..Len(IterOrder) :
        \/ iter = SubSeq(IterOrder, 1, n)
        \/ /\ n >= 1
           /\ IterOrder[n] \in IterCalls
           /\ iter = Append(SubSeq(IterOrder, 1, n), "failed")
\* a line is appended to the log during an iteration only after every earlier
\* step of the order was done without a failure
C22_LogStep ==
    \A n \in 1..Len(IterOrder) :
        (/\ log' = Append(log, IterOrder[n])
         /\ \E t \in Threads : bgpc[t] \in IterationPcs)
            => iter = SubSeq(IterOrder, 1, n - 1)
\* C22: within one control-loop iteration of a two-slice run the steps happen in
\* the order fetch KPIs, KPI log line, inference, one shaping batch, the two
\* 'applied' log lines, and each runs only if every earlier one succeeded.
C22_IterationOrder == []C22_InOrder /\ [][C22_LogStep]_vars
C22_Witness ==
    /\ iter = IterOrder
    /\ Len(slices) = 2
    /\ ovs = "allocation"
    /\ Len(log) >= 3 /\ Last(log) = "Set UL slice allocation"

\* the step is the control loop making a call to a collaborator
C23_StartsCall ==
    \E c \in IterCalls : iter' = Append(iter, c) \/ iter' = iter \o <<c, "failed">>
\* C23: once stop() has set the stop event, the control loop starts no new call
\* to the measurement, inference or shaping collaborator.
C23_NoNewCallAfterStop == [][stopEvent => ~C23_StartsCall]_vars
\* what the loop condition does give: once the stop event is set no new
\* iteration is begun
C23_NoNewIterationAfterStop ==
    [][stopEvent => \A t \in Threads : bgpc'[t] = "iter_kpis" => bgpc[t] = "iter_kpis"]_vars

\* stop() has set the stop event and has not returned yet
C24_Stopping(c) == pc[c] \in {"stop_join", "stop_getlog", "stop_reset", "stop_reset_message",
                              "stop_clear", "stop_return"}
\* join() has returned in stop()
C24_Joined(c) == C24_Stopping(c) /\ pc[c] # "stop_join"
\* stop() goes past its join() only when the background thread has exited
C24_JoinedExited ==
    \A c \in Callers : (C24_Joined(c) /\ thread # None) => bgpc[thread] = "exited"
\* C24: once stop(id) has set the stop event, stop() eventually returns, and it
\* does so only after the background thread has exited, whatever phase the
\* thread is in when stop() is called; no such state is a deadlock.
C24_StopTerminates ==
    /\ []C24_JoinedExited
    /\ C24_Stopping("c1") ~> (pc["c1"] = "idle")
C24_Witness ==
    \E t \in Threads :
        /\ pc["c1"] = "stop_join" /\ thread = t /\ stopEvent
        /\ bgpc[t] = "loop_sleeping"
        /\ pc["c2"] = "status_done"

\* the run has been started and its thread is about to set INITIALIZE
C25_Started == thread # None /\ bgpc[thread] = "init_status"
\* stop() was called, or a call of init() or cleanup() failed
C25_Excused == stopEvent \/ (thread # None /\ exc[thread] # None)
\* cleanup() has set DONE, with the stop time reached
C25_Done ==
    /\ thread # None /\ bgpc[thread] = "final_qosium"
    /\ state = STATE_DONE /\ msgOf = STATE_DONE
    /\ now >= stopTime
\* with no stop() called, CLEANUP is entered from EXECUTE
C25_ThroughExecute ==
    (state' = STATE_CLEANUP /\ state # STATE_CLEANUP /\ ~stopEvent) => state = STATE_EXECUTE
\* C25: without a stop() call, a started run whose init() and cleanup() calls
\* succeed goes through EXECUTE, leaves the control loop when the stop time is
\* reached and reaches DONE, even when iterations of the loop fail.
C25_RunCompletes ==
    /\ C25_Started ~> (C25_Done \/ C25_Excused)
    /\ [][C25_ThroughExecute]_vars
C25_Witness ==
    /\ C25_Done /\ ~C25_Excused
    /\ Len(slices) = 2
    /\ log = <<"Got KPIs from Qosium">>

\* the state becomes EXECUTE with the clock at or past the start time
C26_ExecuteStep ==
    (state' = STATE_EXECUTE /\ state # STATE_EXECUTE) => now >= startTime
\* the loop check: the clock is read before the stop time, then the stop event
\* is read clear, and only then does an iteration begin
C26_LoopCheckStep ==
    \A t \in Threads :
        /\ (bgpc'[t] = "loop_event" /\ bgpc[t] # "loop_event")
              => (bgpc[t] = "loop_clock" /\ now < stopTime)
        /\ (bgpc'[t] = "iter_kpis" /\ bgpc[t] # "iter_kpis")
              => (bgpc[t] = "loop_event" /\ ~stopEvent)
\* a run that entered EXECUTE with the stop time reached performs no iteration
C26_LateNoIteration ==
    late => /\ \A t \in Threads : bgpc[t] \notin IterationPcs
            /\ iter = <<>>
            /\ log = <<>>
\* C26: the state becomes EXECUTE only when the clock has reached the start
\* time; an iteration begins only when the loop check read the clock before
\* the stop time and the stop event clear; when the stop time has passed as
\* EXECUTE is entered, no iteration is performed.
C26_LoopBounds ==
    /\ []C26_LateNoIteration
    /\ [][C26_ExecuteStep /\ C26_LoopCheckStep]_vars
C26_Witness ==
    /\ late /\ ~stopEvent
    /\ state = STATE_DONE
    /\ Len(slices) = 2
    /\ thread # None /\ bgpc[thread] = "exited"

\* the two calls of cleanup() to the collaborators
CleanupCalls == {"cleanup_qosium", "cleanup_ovs"}
\* the state becomes DONE only from CLEANUP, at the end of a cleanup() none of
\* whose calls has raised and whose zero batch was the last one sent
C27_DoneStep ==
    (state' = STATE_DONE /\ state # STATE_DONE)
        => /\ state = STATE_CLEANUP
           /\ thread # None /\ bgpc[thread] = "done_status" /\ exc[thread] = None
           /\ ovs = "zero"
\* a call of cleanup() that raises takes the thread to setStatus(ERROR, str(e))
C27_FailStep ==
    \A t \in Threads :
        (bgpc[t] \in CleanupCalls /\ exc'[t] # exc[t])
            => (exc'[t] # None /\ bgpc'[t] = "error_status")
\* as run() reaches its last teardown: DONE with the zero batch sent last when
\* nothing raised, ERROR with the message of the failure otherwise
C27_Outcome ==
    /\ state = STATE_DONE => ovs = "zero"
    /\ \A t \in Threads :
          bgpc[t] = "final_qosium"
             => IF exc[t] = None
                  THEN state = STATE_DONE /\ msgOf = STATE_DONE /\ message = None
                  ELSE state = STATE_ERROR /\ msgOf = STATE_ERROR /\ message = exc[t]
\* C27: the state is DONE only if both calls of cleanup() succeeded, the last
\* batch sent to the shaper is then the zero batch, and a failure of either
\* call yields ERROR with the message of the failure.
C27_DoneMeansCleanedUp ==
    /\ []C27_Outcome
    /\ [][C27_DoneStep /\ C27_FailStep]_vars
C27_Witness ==
    /\ state = STATE_DONE /\ ovs = "zero"
    /\ "Set UL slice allocation" \in Range(log)
    /\ thread # None /\ bgpc[thread] = "exited"

\* the step is a call of an iteration raising into the except clause
C28_IterationFails == iter' # iter /\ iter' # <<>> /\ Last(iter') = "failed"
\* C28: each failed control-loop iteration leaves a record in the experiment
\* log that stop() returns, and leaves the state and message unchanged.
C28_FailureInLog ==
    [][C28_IterationFails
          => (Len(log') > Len(log) /\ state' = state /\ message' = message)]_vars
\* what the except clause does give: the failure changes neither the status
\* nor the experiment log
C28_FailureLeavesNoTrace ==
    [][C28_IterationFails
          => (log' = log /\ state' = state /\ message' = message /\ msgOf' = msgOf)]_vars

\* a stop() that named the id of the experiment is under way
C29_StopAccepted ==
    \E c \in Callers : pc[c] \in {"stop_signal", "stop_join", "stop_getlog", "stop_reset",
                                  "stop_reset_message", "stop_clear"}
\* the background thread has finished on its own and no stop(id) has been called
C29_Finished == thread # None /\ bgpc[thread] = "exited" /\ ~C29_StopAccepted
\* the experiment keeps its id and its terminal state
C29_StillActive ==
    C29_Finished => (id = StaticId /\ state \in Terminal /\ msgOf = state)
\* getStatus() returns the id with the terminal state
C29_StatusStep ==
    \A c \in Callers :
        (C29_Finished /\ pc[c] = "idle" /\ pc'[c] = "status_done")
            => (ret'[c].id = StaticId /\ ret'[c].state \in Terminal)
\* start() fails with the 'already running' error
C29_StartStep ==
    \A c \in Callers :
        (C29_Finished /\ pc[c] = "start_check" /\ Step(c))
            => (pc'[c] = "start_raise_running" /\ UNCHANGED <<thread, Observable>>)
\* the thread handle is dropped by stop(id) alone
C29_ForgetStep ==
    (thread # None /\ thread' = None)
        => \E c \in Callers : pc[c] = "stop_clear" /\ Step(c) /\ id = NoId
\* C29: after the background thread has finished on its own and until stop(id)
\* is called, getStatus() returns the id with the terminal state and every
\* start() fails with the 'already running' error; only stop(id) makes a new
\* start() possible.
C29_FinishedStaysActive ==
    /\ []C29_StillActive
    /\ [][C29_StatusStep /\ C29_StartStep /\ C29_ForgetStep]_vars
C29_Witness ==
    /\ C29_Finished /\ state = STATE_DONE
    /\ pc["c1"] = "start_raise_running"
    /\ ret["c2"].kind = "status" /\ ret["c2"].id = StaticId /\ ret["c2"].state = STATE_DONE

\* a run that no stop() has been accepted for does not see the stop event set
C30_FlagClear == (thread # None /\ ~C29_StopAccepted) => ~stopEvent
\* the thread is created with the stop event clear
C30_SpawnStep == (thread = None /\ thread' # None) => (~stopEvent /\ ~stopEvent')
\* the stop event is set by stop() alone
C30_SetStep ==
    (stopEvent' /\ ~stopEvent) => \E c \in Callers : pc[c] = "stop_signal" /\ Step(c)
\* the run is in EXECUTE, its start time reached, and not cancelled
C30_Executing == state = STATE_EXECUTE /\ now >= startTime /\ ~stopEvent
\* C30: the stop event set by a stop() does not leak into the next run: start()
\* clears it before the new thread begins, so a run started after a stop() is
\* not cancelled until stop() is called again, and it enters EXECUTE when its
\* start time is reached.
C30_NoLeak ==
    /\ []C30_FlagClear
    /\ [][C30_SpawnStep /\ C30_SetStep]_vars
    /\ C25_Started ~> (C30_Executing \/ C25_Excused)
C30_Witness ==
    /\ C30_Executing
    /\ thread # None /\ bgpc[thread] \in IterationPcs
    /\ ~C29_StopAccepted

\* stop() has passed its check of the id and has not released the runningLock
C31_InStop(c) == pc[c] \in {"stop_signal", "stop_join", "stop_getlog", "stop_reset",
                            "stop_reset_message", "stop_clear", "stop_return"}
\* at most one stop() is past its check, and it holds the runningLock; the
\* thread object is joined at most once, and once when stop() is past its join
C31_OneJoin ==
    /\ Cardinality({c \in Callers : C31_InStop(c)}) <= 1
    /\ \A c \in Callers : C31_InStop(c) => runningLock = c
    /\ joins <= 1
    /\ \A c \in Callers : (C31_InStop(c) /\ pc[c] \notin {"stop_signal", "stop_join"})
                              => joins = 1
    /\ \A c \in Callers : pc[c] \in AfterCapture => ret[c].kind = "log"
\* a stop() that gets the runningLock after another stop() has joined the
\* thread, no start() having come between, fails with 'not found' and changes
\* nothing
C31_OtherStep ==
    \A c \in Callers :
        (pc[c] = "stop_check" /\ Step(c) /\ joins = 1)
            => /\ pc'[c] = "stop_raise"
               /\ UNCHANGED <<thread, stopEvent, joins, Observable>>
\* C31: of two stop(id) calls with the id of the active experiment that run
\* concurrently, exactly one joins the background thread and returns the log;
\* the other gets the runningLock afterwards and fails with the 'not found'
\* error; the thread is joined exactly once.
C31_ConcurrentStops == []C31_OneJoin /\ [][C31_OtherStep]_vars
C31_Witness ==
    /\ pc["c2"] = "stop_raise" /\ ret["c2"] = [kind |-> "stop", id |-> StaticId]
    /\ joins = 1 /\ thread = None /\ id = NoId
    /\ pc["c1"] = "idle"

====
